---------------------------- MODULE Spec2Model ----------------------------
(***************************************************************************)
(* ESP32 OBD-II controller: BLE connection manager (bluetooth.c), ELM327   *)
(* session engine (elm327.c) and adaptive polling scheduler (obd_data.c).  *)
(*                                                                         *)
(* Characters are byte codes, lines and notification payloads are          *)
(* sequences of characters.      Handles are 0 (unset) or a small non-zero *)
(* number.  Tick timestamps are abstracted: a timeout is a step that may   *)
(* be taken whenever the code is waiting.                                  *)
(***************************************************************************)
EXTENDS Integers, Sequences, FiniteSets, TLC

(***************************************************************************)
(* Program constants                                                       *)
(***************************************************************************)
RX_BUFFER_SIZE == 384
MIN_COMMAND_DELAY_MS == 175
MAX_COMMAND_DELAY_MS == 500
DELAY_INCREASE_MS == 50
DELAY_DECREASE_MS == 5
MAX_ERRORS_AT_MAX_DELAY == 10
RESPONSE_COPY_SIZE == 256
UINT8_MOD == 256
LONG_MAX == 2147483647
\* pdMS_TO_TICKS(5000) of the strategy switch, the cycles after which
\* individual-PID mode is left, and the seconds the adapter is given before
\* initialisation (the first poll is later than that)
SWITCH_S == 5
CYCLES_BACK == 3
FIRST_POLL_S == 6
NO_CONN == 65535

(***************************************************************************)
(* Bounds of the model                                                     *)
(***************************************************************************)
\* longest notification payload fed to the framer in SpecFramer
MaxChunk == 2
\* terminator/prompt characters fed in one SpecFramer behaviour
MaxTerminators == 2
\* largest notification slice of a test stream in SpecStream
MaxSlice == 3

(***************************************************************************)
(* Characters: a character is its code, 0..255.  Literals are written as   *)
(* sequences of one-character strings and converted by Str.                 *)
(***************************************************************************)
\* the characters with codes 32..95, in code order
Ascii32 ==
   << " ", "!", "\"", "#", "$", "%", "&", "'", "(", ")", "*", "+",
      ",", "-", ".", "/", "0", "1", "2", "3", "4", "5", "6", "7",
      "8", "9", ":", ";", "<", "=", ">", "?", "@", "A", "B", "C",
      "D", "E", "F", "G", "H", "I", "J", "K", "L", "M", "N", "O",
      "P", "Q", "R", "S", "T", "U", "V", "W", "X", "Y", "Z", "[",
      "\\", "]", "^", "_" >>

\* the characters with codes 97..122, in code order
Ascii97 ==
   << "a", "b", "c", "d", "e", "f", "g", "h", "i", "j", "k", "l", "m",
      "n", "o", "p", "q", "r", "s", "t", "u", "v", "w", "x", "y", "z" >>

Ord(ch) == IF \E i \in 1..Len(Ascii32) : Ascii32[i] = ch
           THEN 31 + (CHOOSE i \in 1..Len(Ascii32) : Ascii32[i] = ch)
           ELSE 96 + (CHOOSE i \in 1..Len(Ascii97) : Ascii97[i] = ch)

Str(lit) == [i \in 1..Len(lit) |-> Ord(lit[i])]

CR == 13
LF == 10
HT == 9
PROMPT == Ord(">")
SPACE == Ord(" ")
MINUS == Ord("-")
PLUS == Ord("+")
ZERO == Ord("0")
HEX_PREFIX == {Ord("x"), Ord("X")}

\* c >= 32 && c <= 126
IsPrintable(c) == c >= 32 /\ c <= 126

IsHex(c) == \/ (c >= 48 /\ c <= 57)
            \/ (c >= 65 /\ c <= 70)
            \/ (c >= 97 /\ c <= 102)

HexVal(c) == IF c <= 57 THEN c - 48 ELSE IF c <= 70 THEN c - 55 ELSE c - 87

(***************************************************************************)
(* C string functions                                                      *)
(***************************************************************************)
Min(set) == CHOOSE x \in set : \A y \in set : x <= y

\* the C string that starts at s[1]: the bytes before the first NUL
CStr(s) ==
   LET z == { i \in 1..Len(s) : s[i] = 0 }
   IN  IF z = {} THEN s ELSE SubSeq(s, 1, Min(z) - 1)

\* strstr: index of the first occurrence of needle in hay, 0 when absent
StrStr(hay, needle) ==
   LET hits == { i \in 1..(Len(hay) - Len(needle) + 1) :
                   /\ hay[i] = needle[1]
                   /\ \A k \in 1..Len(needle) : hay[i + k - 1] = needle[k] }
   IN  IF hits = {} THEN 0 ELSE Min(hits)

\* strtok(..., " ") called until it returns NULL: the non-empty runs
\* between spaces
RECURSIVE StrTok(_, _, _)
StrTok(s, i, cur) ==
   IF i > Len(s) THEN (IF cur = << >> THEN << >> ELSE << cur >>)
   ELSE IF s[i] = SPACE
        THEN (IF cur = << >> THEN StrTok(s, i + 1, << >>)
              ELSE << cur >> \o StrTok(s, i + 1, << >>))
        ELSE StrTok(s, i + 1, Append(cur, s[i]))

\* the digits loop of strtol(tok, NULL, 16): accumulate while the
\* character is a hex digit, saturating at LONG_MAX
RECURSIVE StrToLDigits(_, _, _)
StrToLDigits(s, i, acc) ==
   IF i > Len(s) \/ ~IsHex(s[i]) THEN acc
   ELSE LET v == acc * 16 + HexVal(s[i])
        IN  StrToLDigits(s, i + 1, IF v > LONG_MAX THEN LONG_MAX ELSE v)

\* strtol(tok, NULL, 16): optional sign, optional 0x prefix, hex digits
StrToL16(s) ==
   LET neg  == Len(s) >= 1 /\ s[1] = MINUS
       i0   == IF Len(s) >= 1 /\ s[1] \in {MINUS, PLUS} THEN 2 ELSE 1
       pfx  == Len(s) >= i0 + 1 /\ s[i0] = ZERO /\ s[i0 + 1] \in HEX_PREFIX
       i1   == IF pfx THEN i0 + 2 ELSE i0
       mag  == StrToLDigits(s, i1, 0)
   IN  IF neg THEN 0 - mag ELSE mag

\* the digits loop of a conversion in base 10
RECURSIVE StrToLDigits10(_, _, _)
StrToLDigits10(s, i, acc) ==
   IF i > Len(s) \/ s[i] < 48 \/ s[i] > 57 THEN acc
   ELSE StrToLDigits10(s, i + 1, acc * 10 + (s[i] - 48))

\* HEXBYTE_TO_INT with strtol called with base 10
HEXBYTE_TO_INT_base10(tok) == StrToLDigits10(tok, 1, 0) % UINT8_MOD

\* HEXBYTE_TO_INT without the cast to uint8_t
HEXBYTE_TO_INT_nocast(tok) == StrToL16(tok)

\* #define HEXBYTE_TO_INT(ptr) ((uint8_t)strtol((ptr), NULL, 16))
HEXBYTE_TO_INT(tok) == StrToL16(tok) % UINT8_MOD

\* "%02X" of one byte, as the adapter prints a data byte
HexDigit(n) == IF n < 10 THEN 48 + n ELSE 55 + n

HexByte(b) == << HexDigit(b \div 16), HexDigit(b % 16) >>


(***************************************************************************)
(* String literals of the source                                           *)
(***************************************************************************)
L_ELM327 == Str(<<"E", "L", "M", "3", "2", "7">>)
L_OK == Str(<<"O", "K">>)
L_QMARK == Str(<<"?">>)
L_CAN_ERROR == Str(<<"C", "A", "N", " ", "E", "R", "R", "O", "R">>)
L_NO_DATA == Str(<<"N", "O", " ", "D", "A", "T", "A">>)
L_ERROR == Str(<<"E", "R", "R", "O", "R">>)
L_UNABLE == Str(<<"U", "N", "A", "B", "L", "E", " ", "T", "O", " ",
                  "C", "O", "N", "N", "E", "C", "T">>)
L_SEARCHING == Str(<<"S", "E", "A", "R", "C", "H", "I", "N", "G">>)
L_41_00 == Str(<<"4", "1", " ", "0", "0">>)
L_41_SP == Str(<<"4", "1", " ">>)
L_41 == Str(<<"4", "1">>)
L_55 == Str(<<"5", "5">>)
PID_RPM == 12
PID_SPEED == 13
PID_THROTTLE == 17

(***************************************************************************)
(* State                                                                   *)
(***************************************************************************)
VARIABLES
   \* bluetooth.c
   is_connected, tx_char_handle,
   \* the adapter: the kind of the command last handed to
   \* esp_ble_gattc_write_char and not answered yet ("none" when it has
   \* answered), with a bit that alternates when a command is written over
   \* an unanswered one
   awaiting,
   \* elm327.c
   rx_buffer, rx_buffer_len, elm_ready, response_received_flag,
   consecutive_fail, search_retry_count, ecu_test_response_received,
   \* obd_data.c
   vehicle_data,
   \* TRUE when rpm_last_update, throttle_last_update or speed_last_update
   \* has advanced past the snapshot send_obd_command_adaptive took
   ts_advanced,
   \* observation of the framer: lines handed to elm327_handle_response,
   \* whether one was longer than RX_BUFFER_SIZE - 1, terminators fed,
   \* whether a store into rx_buffer was at an index >= RX_BUFFER_SIZE
   lines_emitted, line_overlong, terms_fed, store_oob,
   \* whether the callback that handled the last notification called
   \* vTaskDelay or waited for elm_ready
   callback_blocked,
   \* elm327.c: the error counters of the ECU health monitor (uint8_t)
   consecutive_ecu_failures, unable_to_connect_count, can_error_count,
   \* obd_data.c: the statics of obd_task's polling strategy;
   \* last_success_time and now (xTaskGetTickCount) in seconds
   phase, use_individual_pids, individual_pid_cycles, last_success_time,
   now,
   \* observation of the strategy: the tick of the last poll that returned
   \* data, and the last polling round: the command it sent ("none" when it
   \* sent nothing), whether it ran in individual-PID mode, whether a poll
   \* has returned data since that mode was entered, and a bit that
   \* alternates with every round
   last_decode, last_round,
   \* test input still to be delivered (SpecStream), decoder test pc
   stream, dec_pc, dec_a, dec_b,
   \* bluetooth.c: connection flags, identifiers and discovered handles
   is_connecting, is_scanning, connect_pending, gattc_if, conn_id,
   uart_service_handle, rx_char_handle, rx_char_cccd_handle, svc_start,
   svc_end,
   \* bluetooth.c tasks: calls of start_ble_scan that are past its early
   \* returns, per caller; scan_timeout_task instances in their first (18 s)
   \* and second (5 s) delay; restart_scan_task instances;
   \* reconnection_watchdog_task instances; ble_recovery_task position and
   \* its stuck_detection_count
   start_calls, scan_timeout_tasks, restart_scan_tasks, watchdog_tasks,
   rec_pc, stuck_detection_count,
   \* the BLE stack: whether the controller is scanning, the events posted
   \* to the callback task and not yet handled, the state of the link, the
   \* number of esp_ble_gattc_open requests made
   scan_on, evq, link, opens,
   \* bluetooth.c: the address type stored with the connect candidate; the
   \* address type passed with the last esp_ble_gattc_open; whether the
   \* last matching scan result was ignored although its address type
   \* differs from the stored one
   pending_addr_type, open_addr_type, duplicate_ignored,
   \* gpio_control.c: the mode flag, the levels of NOS_READY_RELAY and
   \* NOS_AUTO_INJ_RELAY, nos_conditions_met; where update_nos_system and
   \* toggle_auto_injection_mode stand (with the locals of the former); what
   \* the last update_nos_system call found on entry
   auto_injection_mode, nos_ready_relay, nos_auto_inj_relay,
   nos_conditions_met, nos_pc, toggle_pc, last_update,
   \* elm327.c: initialisation done, vehicle ECU verified, the count of the
   \* binary semaphore connection_semaphore; gpio_control.c: its ecu_connected
   elm327_initialized, ecu_connected, connection_semaphore,
   gpio_ecu_connected,
   \* the live initialize_elm327_task and ecu_reconnection_task instances,
   \* oldest first: [kind, pc, n], n the index of the loop the task is in
   elm_tasks,
   \* obd_data.c: position of obd_task and its adaptive polling statics
   obd_pc, current_delay_ms, errors_at_max_delay,
   \* the peer: progress of service discovery and of the notification
   \* enable on the current link
   disc,
   \* observation of the polling path: failures at the ceiling delay since
   \* the last success, link reset or ECU (re)connection; whether the last
   \* call of elm327_send_command_with_options by a task was refused by its
   \* guard
   ceiling_fails, send_rejected,
   \* links established and polls started so far
   links, polls

rxvars == << rx_buffer, rx_buffer_len, elm_ready, response_received_flag,
             consecutive_fail, search_retry_count,
             ecu_test_response_received, vehicle_data, ts_advanced >>

txvars == << awaiting >>

framervars == << lines_emitted, line_overlong, terms_fed, store_oob,
                callback_blocked >>

healthvars == << consecutive_ecu_failures, unable_to_connect_count,
                can_error_count >>

\* the observation of the framer and the error counters, which no
\* statement that runs reads (check_ecu_disconnection returns before its
\* tests)
modevars == << phase, use_individual_pids, individual_pid_cycles,
              last_success_time, now, last_decode, last_round >>

\* the connect candidate's address type and what became of it
candvars == << pending_addr_type, open_addr_type, duplicate_ignored >>

\* the NOS outputs of gpio_control.c and the calls that drive them
nosvars == << auto_injection_mode, nos_ready_relay, nos_auto_inj_relay,
             nos_conditions_met, nos_pc, toggle_pc, last_update >>

obsvars == << framervars, healthvars, modevars, candvars, nosvars >>

blevars == << is_connected, tx_char_handle >>

testvars == << stream, dec_pc, dec_a, dec_b >>

handlevars == << uart_service_handle, rx_char_handle, rx_char_cccd_handle,
                svc_start, svc_end >>

gattvars == << is_connecting, gattc_if, conn_id, handlevars >>

scantaskvars == << start_calls, scan_timeout_tasks, restart_scan_tasks,
                   watchdog_tasks, rec_pc, stuck_detection_count >>

scanvars == << is_scanning, connect_pending, scantaskvars, scan_on, evq,
               link, opens >>

obdvars == << obd_pc, current_delay_ms, errors_at_max_delay >>

pollobsvars == << ceiling_fails, send_rejected >>

sessvars == << elm327_initialized, ecu_connected, connection_semaphore,
               elm_tasks, obdvars, disc, pollobsvars, links, polls >>

\* what the connection manager leaves alone, the disconnect event apart
nonscanvars == << txvars, rxvars, obsvars, testvars, sessvars,
                  gpio_ecu_connected >>

vars == << blevars, txvars, rxvars, obsvars, testvars, gattvars, scanvars,
           sessvars, gpio_ecu_connected >>

(***************************************************************************)
(* PID decoder (obd_data.c)                                                *)
(***************************************************************************)
\* case 0x0D with the data byte added to the field instead of stored
StoreSpeed_add(vd, data1) ==
   [vd EXCEPT !.vehicle_speed = (@ + HEXBYTE_TO_INT(data1)) % UINT8_MOD]

\* case 0x0D: vehicle_data.vehicle_speed = HEXBYTE_TO_INT(data1)
StoreSpeed(vd, data1) ==
   [vd EXCEPT !.vehicle_speed = HEXBYTE_TO_INT(data1)]

\* the while loop of parse_multi_pid_line over the tokens after "41";
\* d is [vd, parsed]
\* the default case entered before the data byte is read
AfterUnknown_keep(r1) == r1

\* the tokens left when the default case is reached: data1 was taken by
\* strtok before the switch
AfterUnknown(r1) == Tail(r1)

RECURSIVE ParsePids(_, _)
ParsePids(toks, d) ==
   IF toks = << >> THEN d
   ELSE IF Head(toks) = L_55 THEN d
   ELSE LET pid_val == HEXBYTE_TO_INT(Head(toks))
            r1 == Tail(toks)
        IN  IF r1 = << >> THEN d
            ELSE LET data1 == Head(r1)
                     r2 == Tail(r1)
                 IN  IF pid_val = PID_RPM
                     THEN IF r2 = << >> THEN d
                          ELSE LET raw == (HEXBYTE_TO_INT(data1) * 256
                                           + HEXBYTE_TO_INT(Head(r2))) % 65536
                               IN  ParsePids(Tail(r2),
                                      [vd |-> [d.vd EXCEPT !.rpm = raw \div 4],
                                       parsed |-> TRUE])
                     ELSE IF pid_val = PID_SPEED
                     THEN ParsePids(r2,
                             [vd |-> StoreSpeed(d.vd, data1),
                              parsed |-> TRUE])
                     ELSE IF pid_val = PID_THROTTLE
                     THEN ParsePids(r2,
                             [vd |-> [d.vd EXCEPT !.throttle_position =
                                 ((HEXBYTE_TO_INT(data1) * 100) \div 255)
                                    % UINT8_MOD],
                              parsed |-> TRUE])
                     ELSE ParsePids(AfterUnknown(r1), d)

\* parse_multi_pid_line(line) applied to snapshot vd: [vd, parsed]
parse_multi_pid_line(line, vd) ==
   LET at == StrStr(line, L_41_SP)
   IN  IF at = 0 THEN [vd |-> vd, parsed |-> FALSE]
       ELSE LET toks == StrTok(SubSeq(line, at, Len(line)), 1, << >>)
            IN  IF toks = << >> \/ Head(toks) # L_41
                THEN [vd |-> vd, parsed |-> FALSE]
                ELSE ParsePids(Tail(toks), [vd |-> vd, parsed |-> FALSE])

\* process_obd_response: strncpy into response_copy[256], then parse
process_obd_response(response, vd) ==
   IF StrStr(response, L_41_SP) # 0
   THEN parse_multi_pid_line(
           SubSeq(response, 1, Min({Len(response), RESPONSE_COPY_SIZE - 1})),
           vd)
   ELSE [vd |-> vd, parsed |-> FALSE]

(***************************************************************************)
(* Session engine: command send, classifier and framer (elm327.c).  The    *)
(* notification callback is one step; r is the record of everything it     *)
(* reads and writes: buf, len, ready (elm_ready), rrf                      *)
(* (response_received_flag), cfail (consecutive_fail), srch                *)
(* (search_retry_count), ecu_test (ecu_test_response_received), vd, ts,    *)
(* and the observations lines, overlong, oob, wr (commands written         *)
(* to the transport by the callback), blocked (vTaskDelay calls and prompt *)
(* waits made by the callback).                                            *)
(***************************************************************************)
\* elm327_send_command("0100") as called from elm327_handle_response,
\* given the link flags: the prompt wait ends on elm_ready or its timeout
SendFromCallback(r, connected, tx_handle) ==
   IF ~connected \/ tx_handle = 0 THEN r
   ELSE [r EXCEPT !.ready = FALSE, !.wr = @ + 1,
                  !.blocked = IF r.ready THEN @ ELSE @ + 1]

\* the last branch of elm327_handle_response: a data line; d is what
\* process_obd_response made of it
HandleData(r0, is_41_00, d) ==
   [r0 EXCEPT !.cfail = 0,
              !.ecu_test = IF is_41_00 THEN TRUE ELSE @,
              !.vd = d.vd,
              !.ts = IF d.parsed THEN TRUE ELSE @,
              !.cef = IF d.parsed THEN 0 ELSE @,
              !.utc = IF d.parsed /\ @ > 0 THEN @ - 1 ELSE @,
              !.cec = IF d.parsed /\ @ > 0 THEN @ - 1 ELSE @]

\* elm327_handle_response(response)
elm327_handle_response(r, response, connected, tx_handle) ==
   IF Len(response) = 0 THEN r
   ELSE
   LET cs == { response[i] : i \in 1..Len(response) }
       Has(n) == n[1] \in cs /\ StrStr(response, n) # 0
       r0 == [r EXCEPT !.rrf = TRUE]
       r1 == [r0 EXCEPT !.cef = (@ + 1) % UINT8_MOD]
   IN  IF Has(L_ELM327) THEN r0
       ELSE IF Has(L_OK) THEN r0
       ELSE IF response = L_QMARK THEN r0
       ELSE IF Has(L_CAN_ERROR) \/ Has(L_NO_DATA)
       THEN IF r0.cfail + 1 >= 3
            THEN [r1 EXCEPT !.cec = (@ + 1) % UINT8_MOD,
                            !.cfail = 0, !.blocked = @ + 1]
            ELSE [r1 EXCEPT !.cec = (@ + 1) % UINT8_MOD, !.cfail = @ + 1]
       ELSE IF Has(L_ERROR) THEN r1
       ELSE IF Has(L_UNABLE) THEN [r1 EXCEPT !.utc = (@ + 1) % UINT8_MOD]
       ELSE IF Has(L_SEARCHING)
       THEN IF r0.srch + 1 >= 3
            THEN SendFromCallback([r1 EXCEPT !.srch = 0, !.blocked = @ + 1],
                                  connected, tx_handle)
            ELSE [r1 EXCEPT !.srch = @ + 1]
       ELSE HandleData(r0, Has(L_41_00),
                       process_obd_response(response, r0.vd))

\* the flush of process_received_data: terminate, hand over, clear
FlushLine(r, connected, tx_handle) ==
   IF r.len > 0
   THEN LET h == elm327_handle_response(
                    [r EXCEPT !.lines = @ + 1,
                              !.overlong = @ \/ r.len > RX_BUFFER_SIZE - 1,
                              !.oob = @ \/ r.len >= RX_BUFFER_SIZE],
                    CStr(SubSeq(r.buf, 1, r.len)), connected, tx_handle)
        IN  [h EXCEPT !.buf = << >>, !.len = 0]
   ELSE r

\* the loop body with every byte outside the printable range taken for a
\* terminator
RxByte_ctl(r, c, connected, tx_handle) ==
   IF c = PROMPT
   THEN [FlushLine([r EXCEPT !.ready = TRUE], connected, tx_handle)
            EXCEPT !.rrf = TRUE]
   ELSE IF IsPrintable(c)
   THEN [r EXCEPT !.buf = Append(@, c), !.len = @ + 1,
                  !.oob = @ \/ r.len >= RX_BUFFER_SIZE]
   ELSE FlushLine(r, connected, tx_handle)

\* one iteration of the for loop of process_received_data
RxByte(r, c, connected, tx_handle) ==
   IF c = CR THEN FlushLine(r, connected, tx_handle)
   ELSE IF c = LF THEN r
   ELSE IF c = PROMPT
   THEN [FlushLine([r EXCEPT !.ready = TRUE], connected, tx_handle)
            EXCEPT !.rrf = TRUE]
   ELSE IF IsPrintable(c)
   THEN [r EXCEPT !.buf = Append(@, c), !.len = @ + 1,
                  !.oob = @ \/ r.len >= RX_BUFFER_SIZE]
   ELSE r

\* the loop condition written rx_buffer_len <= RX_BUFFER_SIZE
RxLoopGuard_le(len) == len <= RX_BUFFER_SIZE

\* the loop condition on the buffer: rx_buffer_len < (RX_BUFFER_SIZE - 1)
RxLoopGuard(len) == len < RX_BUFFER_SIZE - 1

RECURSIVE RxLoop(_, _, _, _, _)
RxLoop(r, data, i, connected, tx_handle) ==
   IF i > Len(data) \/ ~RxLoopGuard(r.len) THEN r
   ELSE RxLoop(RxByte(r, data[i], connected, tx_handle), data, i + 1,
               connected, tx_handle)

\* the statement after the loop: if (rx_buffer_len > 0 || strstr(data, ">"))
RxDone(e, data, overread) ==
   IF e.len > 0 \/ (\E i \in 1..Len(data) : data[i] = PROMPT) \/ overread
   THEN [e EXCEPT !.rrf = TRUE]
   ELSE e

\* process_received_data(data, len).  overread: strstr(data, ">") runs past
\* the payload, which is not NUL-terminated, and finds a '>' there
process_received_data(r, data, overread, connected, tx_handle) ==
   IF Len(data) = 0 THEN r
   ELSE RxDone(RxLoop(r, data, 1, connected, tx_handle), data, overread)

(***************************************************************************)
(* Notification event (bluetooth.c, ESP_GATTC_NOTIFY_EVT)                  *)
(***************************************************************************)
NoCommand == [cmd |-> "none", alt |-> 0]

\* the adapter after a command of the given kind is written to it
Written(kind) ==
   [cmd |-> kind,
    alt |-> IF awaiting.cmd = "none" THEN 0 ELSE 1 - awaiting.alt]

\* esp_ble_gattc_write_char: the command reaches the adapter
WriteChar(kind) == awaiting' = Written(kind)

RxRec ==
   [buf |-> rx_buffer, len |-> rx_buffer_len, ready |-> elm_ready,
    rrf |-> response_received_flag, cfail |-> consecutive_fail,
    srch |-> search_retry_count, ecu_test |-> ecu_test_response_received,
    vd |-> vehicle_data, ts |-> ts_advanced,
    lines |-> lines_emitted, overlong |-> line_overlong,
    oob |-> store_oob, wr |-> 0, blocked |-> 0,
    cef |-> consecutive_ecu_failures, utc |-> unable_to_connect_count,
    cec |-> can_error_count]

NumTerms(data) ==
   Cardinality({ i \in 1..Len(data) : data[i] \in {CR, LF, PROMPT} })

\* what process_received_data leaves in the program's variables and in the
\* adapter; e is its result
NotifyEffect(e) ==
   /\ rx_buffer' = e.buf
   /\ rx_buffer_len' = e.len
   /\ elm_ready' = e.ready
   /\ response_received_flag' = e.rrf
   /\ consecutive_fail' = e.cfail
   /\ search_retry_count' = e.srch
   /\ ecu_test_response_received' = e.ecu_test
   /\ vehicle_data' = e.vd
   /\ ts_advanced' = e.ts
   /\ awaiting' = IF e.wr > 0 THEN Written("0100") ELSE NoCommand

\* the observation of the framer brought up to date
NotifyObserved(e, data) ==
   /\ lines_emitted' = e.lines
   /\ line_overlong' = e.overlong
   /\ store_oob' = e.oob
   /\ terms_fed' = terms_fed + NumTerms(data)
   /\ callback_blocked' = (e.blocked > 0)

\* the error counters as process_received_data leaves them
NotifyHealth(e) ==
   /\ consecutive_ecu_failures' = e.cef
   /\ unable_to_connect_count' = e.utc
   /\ can_error_count' = e.cec

\* ESP_GATTC_NOTIFY_EVT: handle_elm327_response -> process_received_data
GattcNotifyEvt(data, overread) ==
   \E e \in { process_received_data(RxRec, data, overread,
                                    is_connected, tx_char_handle) } :
      /\ NotifyEffect(e) /\ NotifyObserved(e, data) /\ NotifyHealth(e)
      /\ UNCHANGED << modevars, candvars, nosvars >>

(***************************************************************************)
(* Initial values                                                          *)
(***************************************************************************)
TX_HANDLE == 42
RX_HANDLE == 40
SVC_START == 38
SVC_END == 45
BLE_ADDR_TYPE_PUBLIC == 0
BLE_ADDR_TYPE_RANDOM == 1
APP_GATT_IF == 3
CONN_ID == 0
GATT_IF_NONE == 255

Callers == { "gattc_callback", "restart_scan_task", "scan_timeout_task",
             "reconnection_watchdog_task", "ble_recovery_task" }

InitRx ==
   /\ rx_buffer = << >>
   /\ rx_buffer_len = 0
   /\ elm_ready = FALSE
   /\ response_received_flag = FALSE
   /\ consecutive_fail = 0
   /\ search_retry_count = 0
   /\ ecu_test_response_received = FALSE
   /\ vehicle_data = [rpm |-> 0, throttle_position |-> 0, vehicle_speed |-> 0]
   /\ ts_advanced = FALSE

InitObs ==
   /\ lines_emitted = 0
   /\ line_overlong = FALSE
   /\ terms_fed = 0
   /\ store_oob = FALSE
   /\ callback_blocked = FALSE
   /\ consecutive_ecu_failures = 0
   /\ unable_to_connect_count = 0
   /\ can_error_count = 0
   /\ phase = 0
   /\ use_individual_pids = FALSE
   /\ individual_pid_cycles = 0
   /\ last_success_time = 0
   /\ now = FIRST_POLL_S
   /\ last_decode = 0
   /\ last_round = [cmd |-> "none", individual |-> FALSE,
                    recovered |-> FALSE, alt |-> 0]
   /\ pending_addr_type = BLE_ADDR_TYPE_PUBLIC
   /\ open_addr_type = BLE_ADDR_TYPE_PUBLIC
   /\ duplicate_ignored = FALSE
   /\ auto_injection_mode = FALSE
   /\ nos_ready_relay = FALSE
   /\ nos_auto_inj_relay = FALSE
   /\ nos_conditions_met = FALSE
   /\ nos_pc = [pc |-> "idle", conditions_met |-> FALSE, level |-> FALSE]
   /\ toggle_pc = "idle"
   /\ last_update = [connected |-> FALSE, conditions_met |-> FALSE]
   /\ awaiting = NoCommand

\* the link as it is once discovery has found the write endpoint
InitLinked ==
   /\ is_connected = TRUE
   /\ tx_char_handle = TX_HANDLE

InitNoTest ==
   /\ stream = [id |-> "none", rest |-> << >>]
   /\ dec_pc = "idle"
   /\ dec_a = 0
   /\ dec_b = 0

\* bluetooth.c after bluetooth_init: the application registration is
\* requested, one reconnection_watchdog_task and the ble_recovery_task run
InitScan ==
   /\ is_connecting = FALSE
   /\ is_scanning = FALSE
   /\ connect_pending = FALSE
   /\ gattc_if = GATT_IF_NONE
   /\ conn_id = NO_CONN
   /\ rx_char_handle = 0
   /\ rx_char_cccd_handle = 0
   /\ uart_service_handle = 0
   /\ svc_start = 0
   /\ svc_end = 0
   /\ start_calls = [c \in Callers |-> 0]
   /\ scan_timeout_tasks = [wait18 |-> 0, wait5 |-> 0]
   /\ restart_scan_tasks = 0
   /\ watchdog_tasks = 1
   /\ rec_pc = "sleep"
   /\ stuck_detection_count = 0
   /\ scan_on = FALSE
   /\ evq = << "reg" >>
   /\ link = "closed"
   /\ opens = 0

\* elm327.c, obd_data.c and gpio_control.c after elm327_init_system and
\* gpio_init_system, obd_task created: nothing initialised, the semaphore
\* empty, no session task, no link yet
InitSess ==
   /\ elm327_initialized = FALSE
   /\ ecu_connected = FALSE
   /\ connection_semaphore = 0
   /\ gpio_ecu_connected = FALSE
   /\ elm_tasks = << >>
   /\ obd_pc = "boot"
   /\ current_delay_ms = MIN_COMMAND_DELAY_MS
   /\ errors_at_max_delay = 0
   /\ disc = "none"
   /\ ceiling_fails = 0
   /\ send_rejected = FALSE
   /\ links = 0
   /\ polls = 0

\* the session as it is while obd_task polls: notifications enabled, the
\* adapter initialised, the ECU verified, the semaphore taken
InitSessRunning ==
   /\ elm327_initialized = TRUE
   /\ ecu_connected = TRUE
   /\ connection_semaphore = 0
   /\ gpio_ecu_connected = TRUE
   /\ elm_tasks = << >>
   /\ obd_pc = "top"
   /\ current_delay_ms = MIN_COMMAND_DELAY_MS
   /\ errors_at_max_delay = 0
   /\ disc = "acked"
   /\ ceiling_fails = 0
   /\ send_rejected = FALSE
   /\ links = 1
   /\ polls = 0

\* the session while obd_task polls at the delay ceiling, two failures
\* short of MAX_ERRORS_AT_MAX_DELAY
InitSessCeiling ==
   /\ elm327_initialized = TRUE
   /\ ecu_connected = TRUE
   /\ connection_semaphore = 0
   /\ gpio_ecu_connected = TRUE
   /\ elm_tasks = << >>
   /\ obd_pc = "top"
   /\ current_delay_ms = MAX_COMMAND_DELAY_MS
   /\ errors_at_max_delay = MAX_ERRORS_AT_MAX_DELAY - 2
   /\ disc = "acked"
   /\ ceiling_fails = MAX_ERRORS_AT_MAX_DELAY - 2
   /\ send_rejected = FALSE
   /\ links = 1
   /\ polls = 0

\* the session right after the polling path declared the ECU lost:
\* ecu_reconnection_task is in verify_ecu_connection, obd_task waits
InitSessLost ==
   /\ elm327_initialized = TRUE
   /\ ecu_connected = FALSE
   /\ connection_semaphore = 0
   /\ gpio_ecu_connected = TRUE
   /\ elm_tasks = << [kind |-> "reconnect", pc |-> "verify", n |-> 0] >>
   /\ obd_pc = "wait_ecu"
   /\ current_delay_ms = MAX_COMMAND_DELAY_MS
   /\ errors_at_max_delay = MAX_ERRORS_AT_MAX_DELAY
   /\ disc = "acked"
   /\ ceiling_fails = MAX_ERRORS_AT_MAX_DELAY
   /\ send_rejected = FALSE
   /\ links = 1
   /\ polls = 0

\* the connection manager as it is while a link is up: handles discovered,
\* nothing scanning, no event pending
InitScanLinked ==
   /\ is_connecting = FALSE
   /\ is_scanning = FALSE
   /\ connect_pending = FALSE
   /\ gattc_if = APP_GATT_IF
   /\ conn_id = CONN_ID
   /\ rx_char_handle = RX_HANDLE
   /\ rx_char_cccd_handle = RX_HANDLE + 1
   /\ uart_service_handle = 0
   /\ svc_start = SVC_START
   /\ svc_end = SVC_END
   /\ start_calls = [c \in Callers |-> 0]
   /\ scan_timeout_tasks = [wait18 |-> 0, wait5 |-> 0]
   /\ restart_scan_tasks = 0
   /\ watchdog_tasks = 1
   /\ rec_pc = "sleep"
   /\ stuck_detection_count = 0
   /\ scan_on = FALSE
   /\ evq = << >>
   /\ link = "open"
   /\ opens = 1

(***************************************************************************)
(* SpecFramer: arbitrary payloads over a small alphabet into the framer,   *)
(* while ecu_reconnection_task runs test_ecu_connectivity                  *)
(***************************************************************************)
FramerAlphabet == {Ord("A"), CR, LF, PROMPT, HT}

RECURSIVE SeqsUpTo(_, _)
SeqsUpTo(A, n) ==
   IF n = 0 THEN {<< >>}
   ELSE LET shorter == SeqsUpTo(A, n - 1)
        IN  shorter \cup { Append(q, a) : q \in shorter, a \in A }

FramerChunks == SeqsUpTo(FramerAlphabet, MaxChunk) \ {<< >>}

\* the outcomes of the read past the payload that differ: none when the
\* flag is set anyway
Overreads(data) ==
   IF response_received_flag \/ (\E i \in 1..Len(data) : data[i] = PROMPT)
   THEN {FALSE} ELSE BOOLEAN

FramerNotify ==
   \E data \in FramerChunks : \E overread \in Overreads(data) :
      /\ terms_fed + NumTerms(data) <= MaxTerminators
      /\ GattcNotifyEvt(data, overread)
      /\ UNCHANGED << blevars, testvars, gattvars, scanvars, sessvars,
                      gpio_ecu_connected >>

InitFramer ==
   /\ InitRx /\ InitObs /\ InitLinked /\ InitNoTest /\ InitScanLinked
   /\ InitSessLost

(***************************************************************************)
(* SpecStream: adapter output delivered in notification slices of any      *)
(* size up to MaxSlice                                                     *)
(***************************************************************************)
T_SCENARIO ==
   Str(<<"4", "1", " ", "0", "C", " ", "0", "B", " ", "B", "8", " ", "4",
      "1", " ", "0", "D", " ", "3", "C", " ", "4", "1", " ", "1", "1", " ",
      "F", "F">>) \o <<CR>>

T_ONE_MARKER ==
   Str(<<"4", "1", " ", "0", "C", " ", "2", "E", " ", "E", "0", " ", "0",
      "D", " ", "3", "C", " ", "1", "1", " ", "F", "F">>) \o <<CR>> \o
      Str(<<">">>)

T_THREE_LINES ==
   Str(<<"4", "1", " ", "0", "C", " ", "2", "E", " ", "E", "0">>) \o
      <<CR>> \o Str(<<"4", "1", " ", "0", "D", " ", "3", "C">>) \o
      <<CR>> \o <<LF>> \o Str(<<"4", "1", " ", "1", "1", " ", "F",
      "F">>) \o <<CR>> \o <<CR>> \o Str(<<">">>)

T_NO_DATA ==
   Str(<<"N", "O", " ", "D", "A", "T", "A">>) \o <<CR>> \o <<CR>> \o
      Str(<<">">>)

T_SEARCHING ==
   Str(<<"S", "E", "A", "R", "C", "H", "I", "N", "G", ".", ".", ".">>) \o
      <<CR>> \o Str(<<"S", "E", "A", "R", "C", "H", "I", "N", "G", ".",
      ".", ".">>) \o <<CR>> \o Str(<<"S", "E", "A", "R", "C", "H", "I",
      "N", "G", ".", ".", ".">>) \o <<CR>> \o Str(<<"4", "1", " ", "0",
      "0", " ", "B", "E", " ", "3", "F", " ", "A", "8", " ", "1", "3">>) \o
      <<CR>> \o Str(<<">">>)

T_MULTIFRAME ==
   Str(<<"0", ":", " ", "4", "1", " ", "0", "C", " ", "1", "A", " ", "F",
      "8", " ", "0", "D", " ", "3", "C">>) \o <<CR>> \o Str(<<"1", ":",
      " ", "1", "1", " ", "5", "A", " ", "5", "5", " ", "5", "5">>) \o
      <<CR>> \o Str(<<">">>)

TestStreams ==
   { [id |-> "scenario", rest |-> T_SCENARIO],
     [id |-> "one_marker", rest |-> T_ONE_MARKER],
     [id |-> "three_lines", rest |-> T_THREE_LINES],
     [id |-> "no_data", rest |-> T_NO_DATA],
     [id |-> "searching", rest |-> T_SEARCHING],
     [id |-> "multiframe", rest |-> T_MULTIFRAME] }

StreamNotify ==
   \E k \in 1..MaxSlice :
      /\ k <= Len(stream.rest)
      /\ \E overread \in Overreads(SubSeq(stream.rest, 1, k)) :
            GattcNotifyEvt(SubSeq(stream.rest, 1, k), overread)
      /\ stream' = [stream EXCEPT !.rest = SubSeq(@, k + 1, Len(@))]
      /\ UNCHANGED << blevars, dec_pc, dec_a, dec_b, gattvars, scanvars,
                      sessvars, gpio_ecu_connected >>

InitStream ==
   /\ InitRx /\ InitObs /\ InitLinked /\ InitScanLinked /\ InitSessRunning
   /\ stream \in TestStreams
   /\ dec_pc = "idle" /\ dec_a = 0 /\ dec_b = 0

SpecStream == InitStream /\ [][StreamNotify]_vars

(***************************************************************************)
(* SpecSearch: whole response lines of the adapter, SEARCHING among them,  *)
(* handed to elm327_handle_response one after the other                    *)
(***************************************************************************)
MaxLines == 5

\* the lines the adapter answers with while it looks for the ECU
SearchLines == {L_SEARCHING, L_OK, L_NO_DATA, L_41_00}

\* ESP_GATTC_NOTIFY_EVT with one line and its carriage return; the lines
\* delivered so far are kept in stream.rest
SearchNotify ==
   /\ stream.id = "lines"
   /\ Len(stream.rest) < MaxLines
   /\ \E line \in SearchLines :
         /\ \E overread \in Overreads(line \o <<CR>>) :
               GattcNotifyEvt(line \o <<CR>>, overread)
         /\ stream' = [stream EXCEPT !.rest = Append(@, line)]
   /\ UNCHANGED << blevars, dec_pc, dec_a, dec_b, gattvars, scanvars,
                   sessvars, gpio_ecu_connected >>

InitSearch ==
   /\ InitRx /\ InitObs /\ InitLinked /\ InitScanLinked /\ InitSessRunning
   /\ stream = [id |-> "lines", rest |-> << >>]
   /\ dec_pc = "idle" /\ dec_a = 0 /\ dec_b = 0

SpecSearch == InitSearch /\ [][SearchNotify]_vars

\* the last n lines delivered are all SEARCHING lines
LastSearching(n) ==
   /\ Len(stream.rest) >= n
   /\ \A i \in (Len(stream.rest) - n + 1)..Len(stream.rest) :
         stream.rest[i] = L_SEARCHING

\* C31: the handler has re-issued the 0100 probe only if the last three
\* response lines were all SEARCHING lines: a line of another kind between
\* SEARCHING lines restarts the count
C31_ReissueAfterThreeConsecutive ==
   (stream.id = "lines" /\ awaiting.cmd = "0100") => LastSearching(3)

(***************************************************************************)
(* SpecDecode: parse_multi_pid_line on single-PID lines for all data bytes *)
(***************************************************************************)
Bytes == 0..(UINT8_MOD - 1)

L_0C == Str(<<"0", "C">>)
L_0D == Str(<<"0", "D">>)
L_11 == Str(<<"1", "1">>)

\* "41 <pid> <data bytes>" as the adapter prints it
PidLine(pid, data) ==
   LET RECURSIVE Join(_)
       Join(ds) == IF ds = << >> THEN << >>
                   ELSE <<SPACE>> \o HexByte(Head(ds)) \o Join(Tail(ds))
   IN  L_41 \o <<SPACE>> \o pid \o Join(data)

\* parse_multi_pid_line(line) on the shared snapshot
ParseLine(line) ==
   \E d \in { parse_multi_pid_line(line, vehicle_data) } :
      /\ vehicle_data' = d.vd
      /\ ts_advanced' = (ts_advanced \/ d.parsed)
      /\ UNCHANGED << blevars, txvars, rx_buffer, rx_buffer_len, elm_ready,
                      response_received_flag, consecutive_fail,
                      search_retry_count, ecu_test_response_received,
                      obsvars, stream, dec_a, dec_b, gattvars, scanvars,
                      sessvars, gpio_ecu_connected >>

DecodeRpm ==
   /\ dec_pc = "idle"
   /\ ParseLine(PidLine(L_0C, << dec_a, dec_b >>))
   /\ dec_pc' = "rpm"

DecodeSpeed ==
   /\ dec_pc = "idle"
   /\ ParseLine(PidLine(L_0D, << dec_a >>))
   /\ dec_pc' = "speed"

DecodeThrottle ==
   /\ dec_pc = "idle"
   /\ ParseLine(PidLine(L_11, << dec_a >>))
   /\ dec_pc' = "throttle"

NextDecode == DecodeRpm \/ DecodeSpeed \/ DecodeThrottle

InitDecode ==
   /\ InitRx /\ InitObs /\ InitLinked /\ InitScanLinked /\ InitSessRunning
   /\ stream = [id |-> "none", rest |-> << >>]
   /\ dec_pc = "idle"
   /\ dec_a \in Bytes
   /\ dec_b \in Bytes

SpecDecode == InitDecode /\ [][NextDecode]_vars

(***************************************************************************)
(* SpecTokens: parse_multi_pid_line on lines whose data tokens are any     *)
(* strtok token the adapter could print: signs, a 0x prefix, more than two *)
(* digits                                                                  *)
(***************************************************************************)
MaxTokLen == 3

TokenChars == {Ord("F"), Ord("7"), Ord("0"), Ord("-"), Ord("x")}

Tokens == UNION { [1..n -> TokenChars] : n \in 1..MaxTokLen }

\* "41 <pid> <tok> ..." with the data tokens as given
TokLine(pid, toks) ==
   LET RECURSIVE Join(_)
       Join(ts) == IF ts = << >> THEN << >>
                   ELSE <<SPACE>> \o Head(ts) \o Join(Tail(ts))
   IN  L_41 \o <<SPACE>> \o pid \o Join(toks)

TokenRpm ==
   /\ dec_pc = "idle"
   /\ ParseLine(TokLine(L_0C, << dec_a, dec_b >>))
   /\ dec_pc' = "rpm"

TokenSpeed ==
   /\ dec_pc = "idle"
   /\ ParseLine(TokLine(L_0D, << dec_a >>))
   /\ dec_pc' = "speed"

TokenThrottle ==
   /\ dec_pc = "idle"
   /\ ParseLine(TokLine(L_11, << dec_a >>))
   /\ dec_pc' = "throttle"

\* the line of the decode that dec_pc records
LastLine ==
   IF dec_pc = "rpm" THEN TokLine(L_0C, << dec_a, dec_b >>)
   ELSE IF dec_pc = "speed" THEN TokLine(L_0D, << dec_a >>)
   ELSE TokLine(L_11, << dec_a >>)

\* the same line arrives once more and goes through process_obd_response
TokenAgain ==
   /\ dec_pc \in {"rpm", "speed", "throttle"}
   /\ \E d \in { process_obd_response(LastLine, vehicle_data) } :
         /\ vehicle_data' = d.vd
         /\ ts_advanced' = (ts_advanced \/ d.parsed)
   /\ dec_pc' = "again"
   /\ UNCHANGED << blevars, txvars, rx_buffer, rx_buffer_len, elm_ready,
                   response_received_flag, consecutive_fail,
                   search_retry_count, ecu_test_response_received,
                   obsvars, stream, dec_a, dec_b, gattvars, scanvars,
                   sessvars, gpio_ecu_connected >>

NextTokens == TokenRpm \/ TokenSpeed \/ TokenThrottle \/ TokenAgain

InitTokens ==
   /\ InitRx /\ InitObs /\ InitLinked /\ InitScanLinked /\ InitSessRunning
   /\ stream = [id |-> "none", rest |-> << >>]
   /\ dec_pc = "idle"
   /\ dec_a \in Tokens
   /\ dec_b \in Tokens

SpecTokens == InitTokens /\ [][NextTokens]_vars

(***************************************************************************)
(* SpecMulti: parse_multi_pid_line on lines of up to MaxPidTokens tokens   *)
(* after the 41: PIDs the decoder knows, one it does not know, the filler  *)
(* and data bytes, in any order                                            *)
(***************************************************************************)
MaxPidTokens == 6

L_05 == Str(<<"0", "5">>)
L_1A == Str(<<"1", "A">>)

MultiTokens == {L_0C, L_0D, L_11, L_55, L_05, L_1A}

MultiLines == SeqsUpTo(MultiTokens, MaxPidTokens) \ {<< >>}

\* the line with the tokens of stream.rest goes through the parser
MultiParse ==
   /\ stream.id = "multi"
   /\ dec_pc = "idle"
   /\ ParseLine(TokLine(Head(stream.rest), Tail(stream.rest)))
   /\ dec_pc' = "multi"

InitMulti ==
   /\ InitRx /\ InitObs /\ InitLinked /\ InitScanLinked /\ InitSessRunning
   /\ \E toks \in MultiLines : stream = [id |-> "multi", rest |-> toks]
   /\ dec_pc = "idle"
   /\ dec_a = 0
   /\ dec_b = 0

SpecMulti == InitMulti /\ [][MultiParse]_vars

\* the PID positions of a line from index k on: a PID is followed by one
\* data byte, the RPM PID by two, and the filler or the end of the line
\* ends the walk
RECURSIVE PidPositions(_, _)
PidPositions(t, k) ==
   IF k > Len(t) \/ t[k] = L_55 THEN {}
   ELSE {k} \cup PidPositions(t, k + (IF t[k] = L_0C THEN 3 ELSE 2))

\* the last PID position of the line that holds pid with n data bytes
\* after it, 0 when there is none
LastOf(t, pid, n) ==
   LET occ == { k \in PidPositions(t, 1) : t[k] = pid /\ k + n <= Len(t) }
   IN  IF occ = {} THEN 0
       ELSE CHOOSE k \in occ : \A j \in occ : j <= k

\* C32: after a line is parsed every field holds the value of the last
\* occurrence of its PID among the PID positions (an unknown PID takes one
\* data byte, the walk ends at a filler 55 in PID position or at the end
\* of the line), and a field whose PID does not occur with all its data
\* bytes, an RPM PID with fewer than two included, is left as it was
C32_MultiPidWalk ==
   (stream.id = "multi" /\ dec_pc = "multi") =>
      LET t == stream.rest
          rp == LastOf(t, L_0C, 2)
          sp == LastOf(t, L_0D, 1)
          tp == LastOf(t, L_11, 1)
      IN  /\ vehicle_data.rpm =
                IF rp = 0 THEN 0
                ELSE (HEXBYTE_TO_INT(t[rp + 1]) * 256
                         + HEXBYTE_TO_INT(t[rp + 2])) \div 4
          /\ vehicle_data.vehicle_speed =
                IF sp = 0 THEN 0 ELSE HEXBYTE_TO_INT(t[sp + 1])
          /\ vehicle_data.throttle_position =
                IF tp = 0 THEN 0
                ELSE (HEXBYTE_TO_INT(t[tp + 1]) * 100) \div 255
          /\ ts_advanced = (rp # 0 \/ sp # 0 \/ tp # 0)

\* "41 05 1A 0D 1A 0C 1A" was parsed: the unknown PID 05 took one byte,
\* the speed after it is decoded, the RPM PID with one byte changed nothing
C32_Witness ==
   /\ stream.id = "multi"
   /\ dec_pc = "multi"
   /\ stream.rest = << L_05, L_1A, L_0D, L_1A, L_0C, L_1A >>
   /\ vehicle_data.vehicle_speed = 26
   /\ vehicle_data.rpm = 0

(***************************************************************************)
(* Connection manager (bluetooth.c).  The BLE stack is the environment: a  *)
(* scan start or stop request takes effect in the controller when it is    *)
(* made and is reported by an event; events are handled one at a time, in  *)
(* the order they were posted, by the one task that runs gap_callback and  *)
(* gattc_callback.  API calls are taken to return ESP_OK.                  *)
(***************************************************************************)
\* live instances of a task function explored, largest number of posted
\* events, of connect requests and of link losses in one behaviour
MaxTasks == 2
MaxEvents == 2
MaxOpens == 2

TotalStartCalls ==
   start_calls["gattc_callback"] + start_calls["restart_scan_task"]
      + start_calls["scan_timeout_task"]
      + start_calls["reconnection_watchdog_task"]
      + start_calls["ble_recovery_task"]

\* start_ble_scan up to its first vTaskDelay: the two early returns
StartBleScanEnter(caller, calls, scanning, gif) ==
   IF scanning \/ gif = GATT_IF_NONE THEN calls
   ELSE [calls EXCEPT ![caller] = @ + 1]

\* start_ble_scan after its delays: esp_ble_gap_set_scan_params,
\* esp_ble_gap_start_scanning, xTaskCreate(scan_timeout_task); then the
\* caller goes on.  ok: whether the controller starts scanning
StartBleScanRequest(caller, ok) ==
   /\ UNCHANGED nonscanvars
   /\ start_calls[caller] > 0
   /\ Len(evq) < MaxEvents
   /\ scan_timeout_tasks.wait18 + scan_timeout_tasks.wait5 < MaxTasks
   /\ scan_on' = (scan_on \/ ok)
   /\ evq' = Append(evq, IF ok THEN "scan_start_ok" ELSE "scan_start_fail")
   /\ scan_timeout_tasks' = [scan_timeout_tasks EXCEPT !.wait18 = @ + 1]
   /\ start_calls' = [start_calls EXCEPT ![caller] = @ - 1]
   /\ IF caller = "ble_recovery_task"
      THEN rec_pc' = "sleep" /\ stuck_detection_count' = 0
      ELSE UNCHANGED << rec_pc, stuck_detection_count >>
   /\ UNCHANGED << blevars, gattvars, is_scanning, connect_pending,
                   restart_scan_tasks, watchdog_tasks, link, opens >>

\* the callback task takes the next event unless it is inside
\* start_ble_scan (ESP_GATTC_REG_EVT calls it)
Deliver(ev) ==
   /\ evq # << >>
   /\ Head(evq) = ev
   /\ start_calls["gattc_callback"] = 0

\* gattc_callback, ESP_GATTC_REG_EVT
GattcRegEvt ==
   /\ UNCHANGED nonscanvars
   /\ Deliver("reg")
   /\ TotalStartCalls < MaxTasks
   /\ gattc_if' = APP_GATT_IF
   /\ start_calls' = StartBleScanEnter("gattc_callback", start_calls,
                                       is_scanning, APP_GATT_IF)
   /\ evq' = Tail(evq)
   /\ UNCHANGED << blevars, is_connecting, conn_id, handlevars, is_scanning,
                   connect_pending, scan_timeout_tasks, restart_scan_tasks,
                   watchdog_tasks, rec_pc, stuck_detection_count, scan_on,
                   link, opens >>

\* gap_callback, ESP_GAP_BLE_SCAN_RESULT_EVT for the target address
GapScanResultEvt ==
   /\ UNCHANGED nonscanvars
   /\ Deliver("scan_result")
   /\ IF is_connecting \/ connect_pending
      THEN /\ evq' = Tail(evq)
           /\ UNCHANGED << connect_pending, scan_on >>
      ELSE /\ connect_pending' = TRUE
           /\ scan_on' = FALSE
           /\ evq' = Append(Tail(evq), "scan_stop")
   /\ UNCHANGED << blevars, gattvars, is_scanning, scantaskvars, link,
                   opens >>

\* gap_callback, ESP_GAP_BLE_SCAN_START_COMPLETE_EVT with status success
GapScanStartCompleteEvt ==
   /\ UNCHANGED nonscanvars
   /\ Deliver("scan_start_ok")
   /\ scan_timeout_tasks.wait18 + scan_timeout_tasks.wait5 < MaxTasks
   /\ is_scanning' = TRUE
   /\ scan_timeout_tasks' = [scan_timeout_tasks EXCEPT !.wait18 = @ + 1]
   /\ evq' = Tail(evq)
   /\ UNCHANGED << blevars, gattvars, connect_pending, start_calls,
                   restart_scan_tasks, watchdog_tasks, rec_pc,
                   stuck_detection_count, scan_on, link, opens >>

\* gap_callback, ESP_GAP_BLE_SCAN_START_COMPLETE_EVT with a failure status
GapScanStartFailedEvt ==
   /\ UNCHANGED nonscanvars
   /\ Deliver("scan_start_fail")
   /\ evq' = Tail(evq)
   /\ UNCHANGED << blevars, gattvars, is_scanning, connect_pending,
                   scantaskvars, scan_on, link, opens >>

\* esp_ble_gattc_open as the stack takes it: a closed link starts to open,
\* an open one is reported by ESP_GATTC_OPEN_EVT, one opening stays so
GattcOpen(q) ==
   /\ opens' = opens + 1
   /\ link' = IF link = "closed" THEN "opening" ELSE link
   /\ evq' = IF link = "open" THEN Append(q, "open_ok") ELSE q

\* gap_callback, ESP_GAP_BLE_SCAN_STOP_COMPLETE_EVT
GapScanStopCompleteEvt ==
   /\ UNCHANGED nonscanvars
   /\ Deliver("scan_stop")
   /\ is_scanning' = FALSE
   /\ IF connect_pending
      THEN /\ opens < MaxOpens
           /\ connect_pending' = FALSE
           /\ is_connecting' = TRUE
           /\ GattcOpen(Tail(evq))
           /\ UNCHANGED restart_scan_tasks
      ELSE /\ evq' = Tail(evq)
           /\ IF ~is_connecting /\ ~is_connected
              THEN /\ restart_scan_tasks < MaxTasks
                   /\ restart_scan_tasks' = restart_scan_tasks + 1
              ELSE UNCHANGED restart_scan_tasks
           /\ UNCHANGED << connect_pending, is_connecting, link, opens >>
   /\ UNCHANGED << blevars, gattc_if, conn_id, handlevars, start_calls,
                   scan_timeout_tasks, watchdog_tasks, rec_pc,
                   stuck_detection_count, scan_on >>

\* gattc_callback, ESP_GATTC_CONNECT_EVT: the assignments
GattcConnectEvt ==
   /\ conn_id' = CONN_ID
   /\ is_connecting' = FALSE
   /\ is_connected' = TRUE

\* gattc_callback, ESP_GATTC_OPEN_EVT: the assignments
GattcOpenEvt(ok) ==
   IF ok
   THEN /\ conn_id' = CONN_ID
        /\ is_connecting' = FALSE
        /\ is_connected' = (is_connected \/ is_connecting)
   ELSE /\ is_connecting' = FALSE
        /\ is_connected' = FALSE
        /\ UNCHANGED conn_id

\* the handler forgetting the descriptor handle
GattcDisconnectEvt_keepcccd ==
   /\ is_connected' = FALSE
   /\ is_connecting' = FALSE
   /\ conn_id' = NO_CONN
   /\ uart_service_handle' = 0
   /\ tx_char_handle' = 0
   /\ rx_char_handle' = 0
   /\ UNCHANGED rx_char_cccd_handle
   /\ svc_start' = 0
   /\ svc_end' = 0
   /\ gpio_ecu_connected' = FALSE
   /\ watchdog_tasks' = watchdog_tasks + 1

\* gattc_callback, ESP_GATTC_DISCONNECT_EVT: the assignments to the
\* connection state and xTaskCreate(reconnection_watchdog_task)
GattcDisconnectEvt ==
   /\ is_connected' = FALSE
   /\ is_connecting' = FALSE
   /\ conn_id' = NO_CONN
   /\ tx_char_handle' = 0
   /\ rx_char_handle' = 0
   /\ rx_char_cccd_handle' = 0
   /\ uart_service_handle' = 0
   /\ svc_start' = 0
   /\ svc_end' = 0
   /\ gpio_ecu_connected' = FALSE
   /\ watchdog_tasks' = watchdog_tasks + 1

\* scan_timeout_task after its 18 s delay
ScanTimeoutTask ==
   /\ UNCHANGED nonscanvars
   /\ scan_timeout_tasks.wait18 > 0
   /\ IF is_scanning /\ ~is_connecting
      THEN /\ Len(evq) < MaxEvents
           /\ scan_on' = FALSE
           /\ evq' = Append(evq, "scan_stop")
           /\ is_scanning' = FALSE
           /\ scan_timeout_tasks' =
                 [scan_timeout_tasks EXCEPT !.wait18 = @ - 1,
                                            !.wait5 = @ + 1]
      ELSE /\ scan_timeout_tasks' =
                 [scan_timeout_tasks EXCEPT !.wait18 = @ - 1]
           /\ UNCHANGED << scan_on, evq, is_scanning >>
   /\ UNCHANGED << blevars, gattvars, connect_pending, start_calls,
                   restart_scan_tasks, watchdog_tasks, rec_pc,
                   stuck_detection_count, link, opens >>

\* scan_timeout_task after its 5 s delay
ScanTimeoutRestart ==
   /\ UNCHANGED nonscanvars
   /\ scan_timeout_tasks.wait5 > 0
   /\ TotalStartCalls < MaxTasks
   /\ scan_timeout_tasks' = [scan_timeout_tasks EXCEPT !.wait5 = @ - 1]
   /\ start_calls' =
         IF ~is_connected /\ ~is_connecting
         THEN StartBleScanEnter("scan_timeout_task", start_calls,
                                is_scanning, gattc_if)
         ELSE start_calls
   /\ UNCHANGED << blevars, gattvars, is_scanning, connect_pending,
                   restart_scan_tasks, watchdog_tasks, rec_pc,
                   stuck_detection_count, scan_on, evq, link, opens >>

\* restart_scan_task after its 5 s delay
RestartScanTask ==
   /\ UNCHANGED nonscanvars
   /\ restart_scan_tasks > 0
   /\ TotalStartCalls < MaxTasks
   /\ restart_scan_tasks' = restart_scan_tasks - 1
   /\ start_calls' =
         IF ~is_connected /\ ~is_connecting
         THEN StartBleScanEnter("restart_scan_task", start_calls,
                                is_scanning, gattc_if)
         ELSE start_calls
   /\ UNCHANGED << blevars, gattvars, is_scanning, connect_pending,
                   scan_timeout_tasks, watchdog_tasks, rec_pc,
                   stuck_detection_count, scan_on, evq, link, opens >>

\* the watchdog written without its loop: it ends after its first call of
\* start_ble_scan
ReconnectionWatchdogTask_once ==
   /\ UNCHANGED nonscanvars
   /\ start_calls["reconnection_watchdog_task"] < watchdog_tasks
   /\ TotalStartCalls < MaxTasks
   /\ ~is_connected /\ ~is_connecting /\ ~is_scanning
   /\ gattc_if # GATT_IF_NONE
   /\ watchdog_tasks' = watchdog_tasks - 1
   /\ start_calls' = StartBleScanEnter("reconnection_watchdog_task",
                                       start_calls, is_scanning, gattc_if)
   /\ UNCHANGED << blevars, gattvars, is_scanning, connect_pending,
                   scan_timeout_tasks, restart_scan_tasks,
                   rec_pc, stuck_detection_count, scan_on, evq, link,
                   opens >>

\* reconnection_watchdog_task, one round of its loop that calls
\* start_ble_scan and gets past its early returns
ReconnectionWatchdogTask ==
   /\ UNCHANGED nonscanvars
   /\ start_calls["reconnection_watchdog_task"] < watchdog_tasks
   /\ TotalStartCalls < MaxTasks
   /\ ~is_connected /\ ~is_connecting /\ ~is_scanning
   /\ gattc_if # GATT_IF_NONE
   /\ start_calls' = StartBleScanEnter("reconnection_watchdog_task",
                                       start_calls, is_scanning, gattc_if)
   /\ UNCHANGED << blevars, gattvars, is_scanning, connect_pending,
                   scan_timeout_tasks, restart_scan_tasks, watchdog_tasks,
                   rec_pc, stuck_detection_count, scan_on, evq, link,
                   opens >>

\* ble_recovery_task, one round of its loop.  stuck: is_connecting and more
\* than 8 s since last_activity_time
BleRecoveryCheck(stuck) ==
   /\ UNCHANGED nonscanvars
   /\ rec_pc = "sleep"
   /\ stuck => is_connecting
   /\ LET reset == is_connected \/ (~is_connecting /\ ~is_scanning)
          cnt == (IF reset THEN 0 ELSE stuck_detection_count)
                    + (IF stuck THEN 1 ELSE 0)
      IN  /\ stuck_detection_count' = cnt
          /\ IF stuck /\ cnt >= 3
             THEN /\ rec_pc' = "closing"
                  /\ IF conn_id # NO_CONN /\ link # "closed"
                     THEN /\ Len(evq) < MaxEvents
                          /\ link' = "closed"
                          /\ evq' = Append(evq, "disconnect")
                     ELSE UNCHANGED << link, evq >>
             ELSE UNCHANGED << rec_pc, link, evq >>
   /\ UNCHANGED << blevars, gattvars, is_scanning, connect_pending,
                   start_calls, scan_timeout_tasks, restart_scan_tasks,
                   watchdog_tasks, scan_on, opens >>

\* the reset of a recovery that leaves is_connecting as it is
BleRecoveryReset_keepconnecting ==
   /\ UNCHANGED nonscanvars
   /\ rec_pc = "closing"
   /\ rec_pc' = "restart"
   /\ is_connected' = FALSE
   /\ UNCHANGED is_connecting
   /\ is_scanning' = FALSE
   /\ conn_id' = NO_CONN
   /\ tx_char_handle' = 0
   /\ rx_char_handle' = 0
   /\ rx_char_cccd_handle' = 0
   /\ uart_service_handle' = 0
   /\ svc_start' = 0
   /\ svc_end' = 0
   /\ UNCHANGED << gattc_if, connect_pending, start_calls,
                   scan_timeout_tasks, restart_scan_tasks, watchdog_tasks,
                   stuck_detection_count, scan_on, evq, link, opens >>

\* ble_recovery_task: the state reset of a recovery
BleRecoveryReset ==
   /\ UNCHANGED nonscanvars
   /\ rec_pc = "closing"
   /\ rec_pc' = "restart"
   /\ is_connected' = FALSE
   /\ is_connecting' = FALSE
   /\ is_scanning' = FALSE
   /\ conn_id' = NO_CONN
   /\ tx_char_handle' = 0
   /\ rx_char_handle' = 0
   /\ rx_char_cccd_handle' = 0
   /\ uart_service_handle' = 0
   /\ svc_start' = 0
   /\ svc_end' = 0
   /\ UNCHANGED << gattc_if, connect_pending, start_calls,
                   scan_timeout_tasks, restart_scan_tasks, watchdog_tasks,
                   stuck_detection_count, scan_on, evq, link, opens >>

\* ble_recovery_task: start_ble_scan after the 5 s delay of a recovery
BleRecoveryRestart ==
   /\ UNCHANGED nonscanvars
   /\ rec_pc = "restart"
   /\ TotalStartCalls < MaxTasks
   /\ start_calls' = StartBleScanEnter("ble_recovery_task", start_calls,
                                       is_scanning, gattc_if)
   /\ IF is_scanning \/ gattc_if = GATT_IF_NONE
      THEN rec_pc' = "sleep" /\ stuck_detection_count' = 0
      ELSE rec_pc' = "starting" /\ UNCHANGED stuck_detection_count
   /\ UNCHANGED << blevars, gattvars, is_scanning, connect_pending,
                   scan_timeout_tasks, restart_scan_tasks, watchdog_tasks,
                   scan_on, evq, link, opens >>

(***************************************************************************)
(* SpecScan: the connection manager from registration to link loss, with   *)
(* the stack's scan reports and link events                                *)
(***************************************************************************)
\* the controller hears the target while it scans
TargetAdvertises ==
   /\ UNCHANGED nonscanvars
   /\ scan_on
   /\ Len(evq) < MaxEvents
   /\ evq' = Append(evq, "scan_result")
   /\ UNCHANGED << blevars, gattvars, is_scanning, connect_pending,
                   scantaskvars, scan_on, link, opens >>

\* the link comes up: ESP_GATTC_CONNECT_EVT, then ESP_GATTC_OPEN_EVT
LinkEstablished ==
   /\ UNCHANGED nonscanvars
   /\ link = "opening"
   /\ Len(evq) + 2 <= MaxEvents
   /\ link' = "open"
   /\ evq' = evq \o << "connect", "open_ok" >>
   /\ UNCHANGED << blevars, gattvars, is_scanning, connect_pending,
                   scantaskvars, scan_on, opens >>

\* the connect attempt fails: ESP_GATTC_OPEN_EVT with an error status
LinkFailed ==
   /\ UNCHANGED nonscanvars
   /\ link = "opening"
   /\ Len(evq) < MaxEvents
   /\ link' = "closed"
   /\ evq' = Append(evq, "open_fail")
   /\ UNCHANGED << blevars, gattvars, is_scanning, connect_pending,
                   scantaskvars, scan_on, opens >>

\* the link is lost: ESP_GATTC_DISCONNECT_EVT
LinkLost ==
   /\ UNCHANGED nonscanvars
   /\ link = "open"
   /\ Len(evq) < MaxEvents
   /\ link' = "closed"
   /\ evq' = Append(evq, "disconnect")
   /\ UNCHANGED << blevars, gattvars, is_scanning, connect_pending,
                   scantaskvars, scan_on, opens >>

ScanConnectEvt ==
   /\ UNCHANGED nonscanvars
   /\ Deliver("connect")
   /\ GattcConnectEvt
   /\ evq' = Tail(evq)
   /\ UNCHANGED << tx_char_handle, gattc_if, handlevars, is_scanning,
                   connect_pending, scantaskvars, scan_on, link, opens >>

ScanOpenEvt ==
   /\ UNCHANGED nonscanvars
   /\ evq # << >>
   /\ Head(evq) \in {"open_ok", "open_fail"}
   /\ start_calls["gattc_callback"] = 0
   /\ GattcOpenEvt(Head(evq) = "open_ok")
   /\ evq' = Tail(evq)
   /\ UNCHANGED << tx_char_handle, gattc_if, handlevars, is_scanning,
                   connect_pending, scantaskvars, scan_on, link, opens >>

ScanDisconnectEvt ==
   /\ UNCHANGED << txvars, rxvars, obsvars, testvars, sessvars >>
   /\ Deliver("disconnect")
   /\ GattcDisconnectEvt
   /\ evq' = Tail(evq)
   /\ UNCHANGED << gattc_if, is_scanning, connect_pending, start_calls,
                   scan_timeout_tasks, restart_scan_tasks, rec_pc,
                   stuck_detection_count, scan_on, link, opens >>

NextScan ==
   \/ GattcRegEvt
   \/ GapScanResultEvt
   \/ GapScanStartCompleteEvt
   \/ GapScanStartFailedEvt
   \/ GapScanStopCompleteEvt
   \/ ScanConnectEvt
   \/ ScanOpenEvt
   \/ ScanDisconnectEvt
   \/ \E c \in Callers : \E ok \in BOOLEAN : StartBleScanRequest(c, ok)
   \/ ScanTimeoutTask
   \/ ScanTimeoutRestart
   \/ RestartScanTask
   \/ ReconnectionWatchdogTask
   \/ \E stuck \in BOOLEAN : BleRecoveryCheck(stuck)
   \/ BleRecoveryReset
   \/ BleRecoveryRestart
   \/ TargetAdvertises
   \/ LinkEstablished
   \/ LinkFailed
   \/ LinkLost

InitScanBoot ==
   /\ InitRx /\ InitObs /\ InitNoTest /\ InitScan /\ InitSess
   /\ is_connected = FALSE
   /\ tx_char_handle = 0

SpecScan == InitScanBoot /\ [][NextScan]_vars

\* a sweep of ble_recovery_task sees the manager connected or idle
SweepSeesActivity == is_connected \/ (~is_connecting /\ ~is_scanning)

NextWatch ==
   \/ GattcRegEvt
   \/ GapScanResultEvt
   \/ GapScanStartCompleteEvt
   \/ GapScanStartFailedEvt
   \/ GapScanStopCompleteEvt
   \/ ScanConnectEvt
   \/ ScanOpenEvt
   \/ ScanDisconnectEvt
   \/ \E c \in Callers : \E ok \in BOOLEAN : StartBleScanRequest(c, ok)
   \/ ScanTimeoutTask
   \/ ScanTimeoutRestart
   \/ RestartScanTask
   \/ ReconnectionWatchdogTask
   \/ TargetAdvertises
   \/ LinkEstablished
   \/ LinkFailed
   \/ LinkLost

\* the callback task and every task of bluetooth.c are scheduled again and
\* again (FreeRTOS runs each once its delay is over), and the controller
\* does not refuse to scan for ever; the peer and the link owe nothing
SpecScanFair ==
   /\ InitScanBoot /\ [][NextWatch]_vars
   /\ WF_vars(GattcRegEvt) /\ WF_vars(GapScanResultEvt)
   /\ WF_vars(GapScanStartCompleteEvt) /\ WF_vars(GapScanStartFailedEvt)
   /\ WF_vars(GapScanStopCompleteEvt) /\ WF_vars(ScanConnectEvt)
   /\ WF_vars(ScanOpenEvt) /\ WF_vars(ScanDisconnectEvt)
   /\ \A c \in Callers : SF_vars(StartBleScanRequest(c, TRUE))
   /\ WF_vars(ScanTimeoutTask) /\ WF_vars(ScanTimeoutRestart)
   /\ WF_vars(RestartScanTask) /\ WF_vars(ReconnectionWatchdogTask)

\* the manager is neither connected, connecting nor scanning
ManagerIdle == ~is_connected /\ ~is_connecting /\ ~is_scanning

\* a step of a task or of the callback task that the code would take is
\* withheld by one of the bounds MaxTasks, MaxEvents, MaxOpens: the
\* behaviour leaves the part of the program this model explores
Truncated ==
   LET timeouts == scan_timeout_tasks.wait18 + scan_timeout_tasks.wait5
       head(ev) == evq # << >> /\ Head(evq) = ev
                      /\ start_calls["gattc_callback"] = 0
   IN  \/ /\ TotalStartCalls >= MaxTasks
          /\ \/ scan_timeout_tasks.wait5 > 0
             \/ restart_scan_tasks > 0
             \/ rec_pc = "restart"
             \/ head("reg")
             \/ /\ ManagerIdle /\ gattc_if # GATT_IF_NONE
                /\ start_calls["reconnection_watchdog_task"] < watchdog_tasks
       \/ /\ TotalStartCalls > 0
          /\ (timeouts >= MaxTasks \/ Len(evq) >= MaxEvents)
       \/ head("scan_start_ok") /\ timeouts >= MaxTasks
       \/ /\ head("scan_stop")
          /\ IF connect_pending THEN opens >= MaxOpens
             ELSE /\ ~is_connecting /\ ~is_connected
                  /\ restart_scan_tasks >= MaxTasks
       \/ /\ scan_timeout_tasks.wait18 > 0
          /\ is_scanning /\ ~is_connecting
          /\ Len(evq) >= MaxEvents

AddrTypes == {BLE_ADDR_TYPE_PUBLIC, BLE_ADDR_TYPE_RANDOM}

\* what the two handlers leave alone outside the connection manager
candenv == << txvars, rxvars, framervars, healthvars, modevars, nosvars,
             testvars,
             sessvars, gpio_ecu_connected >>

\* the scan result taken although a connect is pending
CandScanResultEvt_retake(ble_addr_type) ==
   /\ UNCHANGED candenv
   /\ Deliver("scan_result")
   /\ IF is_connecting
      THEN /\ evq' = Tail(evq)
           /\ duplicate_ignored' =
                 (connect_pending /\ ble_addr_type # pending_addr_type)
           /\ UNCHANGED << connect_pending, scan_on, pending_addr_type >>
      ELSE /\ pending_addr_type' = ble_addr_type
           /\ connect_pending' = TRUE
           /\ scan_on' = FALSE
           /\ duplicate_ignored' = FALSE
           /\ evq' = Append(Tail(evq), "scan_stop")
   /\ UNCHANGED << blevars, gattvars, is_scanning, scantaskvars, link,
                   opens, open_addr_type >>

\* gap_callback, ESP_GAP_BLE_SCAN_RESULT_EVT for the target address with
\* scan_rst.ble_addr_type
CandScanResultEvt(ble_addr_type) ==
   /\ UNCHANGED candenv
   /\ Deliver("scan_result")
   /\ IF is_connecting \/ connect_pending
      THEN /\ evq' = Tail(evq)
           /\ duplicate_ignored' =
                 (connect_pending /\ ble_addr_type # pending_addr_type)
           /\ UNCHANGED << connect_pending, scan_on, pending_addr_type >>
      ELSE /\ pending_addr_type' = ble_addr_type
           /\ connect_pending' = TRUE
           /\ scan_on' = FALSE
           /\ duplicate_ignored' = FALSE
           /\ evq' = Append(Tail(evq), "scan_stop")
   /\ UNCHANGED << blevars, gattvars, is_scanning, scantaskvars, link,
                   opens, open_addr_type >>

\* gap_callback, ESP_GAP_BLE_SCAN_STOP_COMPLETE_EVT
CandScanStopCompleteEvt ==
   /\ UNCHANGED candenv
   /\ Deliver("scan_stop")
   /\ is_scanning' = FALSE
   /\ IF connect_pending
      THEN /\ opens < MaxOpens
           /\ connect_pending' = FALSE
           /\ is_connecting' = TRUE
           /\ GattcOpen(Tail(evq))
           /\ open_addr_type' = pending_addr_type
           /\ UNCHANGED restart_scan_tasks
      ELSE /\ evq' = Tail(evq)
           /\ IF ~is_connecting /\ ~is_connected
              THEN /\ restart_scan_tasks < MaxTasks
                   /\ restart_scan_tasks' = restart_scan_tasks + 1
              ELSE UNCHANGED restart_scan_tasks
           /\ UNCHANGED << connect_pending, is_connecting, link, opens,
                           open_addr_type >>
   /\ UNCHANGED << blevars, gattc_if, conn_id, handlevars, start_calls,
                   scan_timeout_tasks, watchdog_tasks, rec_pc,
                   stuck_detection_count, scan_on, pending_addr_type,
                   duplicate_ignored >>

\* ble_recovery_task stays in its delay: of the flags the scan result
\* handler reads it writes is_connecting only, to the value that
\* ScanOpenEvt and ScanDisconnectEvt give it as well
NextCandidate ==
   \/ GattcRegEvt
   \/ \E t \in AddrTypes : CandScanResultEvt(t)
   \/ GapScanStartCompleteEvt
   \/ GapScanStartFailedEvt
   \/ CandScanStopCompleteEvt
   \/ ScanConnectEvt
   \/ ScanOpenEvt
   \/ ScanDisconnectEvt
   \/ \E c \in Callers : \E ok \in BOOLEAN : StartBleScanRequest(c, ok)
   \/ ScanTimeoutTask
   \/ ScanTimeoutRestart
   \/ RestartScanTask
   \/ ReconnectionWatchdogTask
   \/ TargetAdvertises
   \/ LinkEstablished
   \/ LinkFailed
   \/ LinkLost

SpecCandidate == InitScanBoot /\ [][NextCandidate]_vars

\* gap_callback takes a scan result
ScanResultStep ==
   /\ Deliver("scan_result")
   /\ evq' \in {Tail(evq), Append(Tail(evq), "scan_stop")}

\* C30: a matching scan result that arrives while connect_pending or
\* is_connecting is set requests no stop of the scan and no connect and
\* leaves the stored candidate as it is; every esp_ble_gattc_open uses up
\* the pending candidate and is passed the address type stored with it
C30_OneConnectPerCandidate ==
   [][/\ (ScanResultStep /\ (connect_pending \/ is_connecting)) =>
            /\ evq' = Tail(evq)
            /\ opens' = opens
            /\ scan_on' = scan_on
            /\ connect_pending' = connect_pending
            /\ pending_addr_type' = pending_addr_type
      /\ opens' # opens =>
            /\ opens' = opens + 1
            /\ connect_pending /\ ~connect_pending'
            /\ open_addr_type' = pending_addr_type]_vars

\* a scan result with another address type was ignored while the
\* candidate, stored with the type RANDOM, is pending
C30_Witness ==
   /\ duplicate_ignored
   /\ connect_pending
   /\ pending_addr_type = BLE_ADDR_TYPE_RANDOM

(***************************************************************************)
(* Session: the GATT client events after a link is up (bluetooth.c), the   *)
(* initialisation and ECU verification tasks (elm327.c) and obd_task       *)
(* (obd_data.c).  Tasks are preempted between any two of their statements; *)
(* a step of a task runs from one blocking call or read of shared state to *)
(* the next.  A wait loop that polls a flag until a timeout either sees    *)
(* the flag or times out.                                                  *)
(***************************************************************************)
\* initialize_elm327_task instances and ecu_reconnection_task instances
\* alive at the same time, links established in one behaviour, polls
\* started in one behaviour of SpecLink, count of errors at the ceiling
\* past MAX_ERRORS_AT_MAX_DELAY, buffer fill below which a store racing with a clear is
\* explored
MaxInitTasks == 2
MaxEcuTasks == 1
MaxLinks == 2
MaxPolls == 2
MaxExcess == 1
MaxRaceLen == 2

\* the three cmd_formats times max_retries, alt_cmds and init_cmds of
\* initialize_elm327_task
ATZ_ATTEMPTS == 9
ALT_CMDS == 4
INIT_CMDS == 11
\* rx_buffer_len > 5 in test_ecu_connectivity
TEST_MIN_LEN == 5
NUL == 0

\* replies of the adapter, each a complete line and a prompt
R_OK == Str(<<"O", "K">>) \o << CR, PROMPT >>
R_PIDS ==
   Str(<<"4", "1", " ", "0", "0", " ", "B", "E", " ", "3", "F", " ", "A",
      "8", " ", "1", "3">>) \o << CR, PROMPT >>
R_RPM ==
   Str(<<"4", "1", " ", "0", "C", " ", "1", "A", " ", "F", "8">>)
      \o << CR, PROMPT >>
R_UNABLE == L_UNABLE \o << CR, PROMPT >>

\* what the adapter answers to a command of each kind
Replies(kind) ==
   IF kind = "at" THEN { R_OK }
   ELSE IF kind = "0100" THEN { R_PIDS, R_UNABLE }
   ELSE IF kind = "pid" THEN { R_RPM, R_UNABLE }
   ELSE { }

\* what no step of a task touches
taskenv == << obsvars, testvars, blevars, gattvars, scanvars, disc, links,
              gpio_ecu_connected >>

\* the guard of ble_uart_write: the write is handed to
\* esp_ble_gattc_write_char
ble_uart_write == is_connected /\ tx_char_handle # 0

\* the guard of elm327_send_command_with_options with only the link tested
SendGuard_link(connected, tx_handle) == connected

\* the guard of elm327_send_command_with_options
SendGuard(connected, tx_handle) == connected /\ tx_handle # 0

\* the delay after a failure, without the clamp
DelayIncrease_noclamp(d) == d + DELAY_INCREASE_MS

\* the delay after a failure below the ceiling
DelayIncrease(d) ==
   IF d + DELAY_INCREASE_MS > MAX_COMMAND_DELAY_MS
   THEN MAX_COMMAND_DELAY_MS
   ELSE d + DELAY_INCREASE_MS

\* the delay after a success above the floor
DelayDecrease(d) ==
   IF d - DELAY_DECREASE_MS < MIN_COMMAND_DELAY_MS
   THEN MIN_COMMAND_DELAY_MS
   ELSE d - DELAY_DECREASE_MS

\* the tail of send_obd_command_adaptive: the new delay and error count and
\* whether reset_ecu_connection is called, for data_updated (success) or
\* an error response or timeout (failure)
Adapt(success, d, e) ==
   IF success
   THEN [delay |-> IF d > MIN_COMMAND_DELAY_MS THEN DelayDecrease(d) ELSE d,
         errors |-> 0, lost |-> FALSE]
   ELSE IF d < MAX_COMMAND_DELAY_MS
   THEN [delay |-> DelayIncrease(d), errors |-> e, lost |-> FALSE]
   ELSE [delay |-> d, errors |-> (e + 1) % UINT8_MOD,
         lost |-> (e + 1) % UINT8_MOD >= MAX_ERRORS_AT_MAX_DELAY]

NumTasks(kind) ==
   Cardinality({ i \in 1..Len(elm_tasks) : elm_tasks[i].kind = kind })

RemoveAt(q, i) == SubSeq(q, 1, i - 1) \o SubSeq(q, i + 1, Len(q))

\* check_and_reset_stale_data: each value older than the timeout is zeroed
StaleOutcomes(vd) ==
   { [rpm |-> r, throttle_position |-> t, vehicle_speed |-> s] :
        r \in {vd.rpm, 0}, t \in {vd.throttle_position, 0},
        s \in {vd.vehicle_speed, 0} }

(***************************************************************************)
(* obd_task                                                                *)
(***************************************************************************)
\* first loop: the test of is_connected
ObdBoot ==
   /\ obd_pc = "boot"
   /\ is_connected
   /\ obd_pc' = "boot_take"
   /\ UNCHANGED << taskenv, txvars, rxvars, elm327_initialized,
                   ecu_connected, connection_semaphore, elm_tasks,
                   current_delay_ms, errors_at_max_delay, pollobsvars,
                   polls >>

\* first loop: xSemaphoreTake with its 1 s timeout
ObdBootTake ==
   /\ obd_pc = "boot_take"
   /\ IF connection_semaphore > 0
      THEN connection_semaphore' = 0 /\ obd_pc' = "boot_ecu"
      ELSE obd_pc' = "boot" /\ UNCHANGED connection_semaphore
   /\ UNCHANGED << taskenv, txvars, rxvars, elm327_initialized,
                   ecu_connected, elm_tasks, current_delay_ms,
                   errors_at_max_delay, pollobsvars, polls >>

\* the wait for the ECU before polling starts
ObdBootEcu ==
   /\ obd_pc = "boot_ecu"
   /\ ecu_connected \/ ~is_connected
   /\ obd_pc' = IF is_connected THEN "top" ELSE "boot"
   /\ UNCHANGED << taskenv, txvars, rxvars, elm327_initialized,
                   ecu_connected, connection_semaphore, elm_tasks,
                   current_delay_ms, errors_at_max_delay, pollobsvars,
                   polls >>

\* top of the polling loop: the tests of is_connected and ecu_connected
ObdTop ==
   /\ obd_pc = "top"
   /\ IF ~is_connected
      THEN /\ current_delay_ms' = MIN_COMMAND_DELAY_MS
           /\ errors_at_max_delay' = 0
           /\ ceiling_fails' = 0
           /\ obd_pc' = "wait_bt"
      ELSE /\ obd_pc' = IF ~ecu_connected THEN "wait_ecu" ELSE "poll"
           /\ UNCHANGED << current_delay_ms, errors_at_max_delay,
                           ceiling_fails >>
   /\ UNCHANGED << taskenv, txvars, rxvars, elm327_initialized,
                   ecu_connected, connection_semaphore, elm_tasks, polls,
                   send_rejected >>

\* while (!is_connected) in the polling loop
ObdWaitBt ==
   /\ obd_pc = "wait_bt"
   /\ is_connected
   /\ obd_pc' = "top"
   /\ UNCHANGED << taskenv, txvars, rxvars, elm327_initialized,
                   ecu_connected, connection_semaphore, elm_tasks,
                   current_delay_ms, errors_at_max_delay, pollobsvars,
                   polls >>

\* while (!ecu_connected && is_connected) in the polling loop and the
\* reset after it
ObdWaitEcu ==
   /\ obd_pc = "wait_ecu"
   /\ ecu_connected \/ ~is_connected
   /\ IF ~is_connected
      THEN /\ obd_pc' = "top"
           /\ UNCHANGED << current_delay_ms, errors_at_max_delay >>
      ELSE /\ current_delay_ms' = MIN_COMMAND_DELAY_MS
           /\ errors_at_max_delay' = 0
           /\ obd_pc' = "poll"
   /\ UNCHANGED << taskenv, txvars, rxvars, elm327_initialized,
                   ecu_connected, connection_semaphore, elm_tasks,
                   pollobsvars, polls >>

\* if (is_connected && elm327_initialized), else the 1 s delay
ObdPoll ==
   /\ obd_pc = "poll"
   /\ obd_pc' = IF is_connected /\ elm327_initialized THEN "send" ELSE "top"
   /\ UNCHANGED << taskenv, txvars, rxvars, elm327_initialized,
                   ecu_connected, connection_semaphore, elm_tasks,
                   current_delay_ms, errors_at_max_delay, pollobsvars,
                   polls >>

\* send_obd_command_adaptive up to the guard of
\* elm327_send_command_with_options
ObdSend ==
   /\ obd_pc = "send"
   /\ response_received_flag' = FALSE
   /\ ts_advanced' = FALSE
   /\ send_rejected' = ~SendGuard(is_connected, tx_char_handle)
   /\ obd_pc' = IF SendGuard(is_connected, tx_char_handle)
                THEN "prompt_wait" ELSE "delay"
   /\ UNCHANGED << taskenv, txvars, rx_buffer, rx_buffer_len, elm_ready,
                   consecutive_fail, search_retry_count,
                   ecu_test_response_received, vehicle_data,
                   elm327_initialized, ecu_connected, connection_semaphore,
                   elm_tasks, current_delay_ms, errors_at_max_delay,
                   ceiling_fails >>

\* while (!elm_ready) with its 2 s limit is left with elm_ready false only
\* by the timeout
PromptWaitTimedOut == ~elm_ready

\* the response loop with its 1 s limit is left without updated data and
\* without response_received_flag only by the timeout
RespWaitTimedOut == ~ts_advanced /\ ~response_received_flag

\* elm327_send_command_with_options after the guard: the wait for the
\* prompt ends on elm_ready or after 2 s, then the command is written
ObdPromptWait ==
   /\ obd_pc = "prompt_wait"
   /\ elm_ready' = FALSE
   /\ IF ble_uart_write
      THEN /\ WriteChar("pid")
           /\ obd_pc' = "resp_wait"
      ELSE /\ obd_pc' = "delay"
           /\ UNCHANGED txvars
   /\ UNCHANGED << taskenv, rx_buffer, rx_buffer_len,
                   response_received_flag, consecutive_fail,
                   search_retry_count, ecu_test_response_received,
                   vehicle_data, ts_advanced, elm327_initialized,
                   ecu_connected, connection_semaphore, elm_tasks,
                   current_delay_ms, errors_at_max_delay, pollobsvars,
                   polls >>

\* reset_ecu_connection with unable_to_connect_count left as it is
reset_ecu_connection_keepcount ==
   /\ ecu_connected' = FALSE
   /\ consecutive_ecu_failures' = 0
   /\ UNCHANGED unable_to_connect_count
   /\ can_error_count' = 0
   /\ elm_tasks' = Append(elm_tasks,
                      [kind |-> "reconnect", pc |-> "start", n |-> 0])

\* reset_ecu_connection: the ECU flag and the error counters are cleared,
\* ecu_reconnection_task is created
reset_ecu_connection ==
   /\ ecu_connected' = FALSE
   /\ consecutive_ecu_failures' = 0
   /\ unable_to_connect_count' = 0
   /\ can_error_count' = 0
   /\ elm_tasks' = Append(elm_tasks,
                      [kind |-> "reconnect", pc |-> "start", n |-> 0])

\* the outcome of send_obd_command_adaptive applied; a is Adapt's result
ObdOutcome(success, a) ==
   /\ a.errors <= MAX_ERRORS_AT_MAX_DELAY + MaxExcess
   /\ NumTasks("reconnect") < MaxEcuTasks \/ ~a.lost
   /\ current_delay_ms' = a.delay
   /\ errors_at_max_delay' = a.errors
   /\ ceiling_fails' =
         IF success THEN 0
         ELSE IF current_delay_ms < MAX_COMMAND_DELAY_MS THEN ceiling_fails
         ELSE ceiling_fails + 1
   /\ IF a.lost
      THEN reset_ecu_connection
      ELSE UNCHANGED << ecu_connected, elm_tasks, healthvars >>
   /\ obd_pc' = "delay"
   /\ UNCHANGED << framervars, modevars, candvars, nosvars, testvars,
                   blevars,
                   gattvars,
                   scanvars, disc, links, gpio_ecu_connected, txvars, rxvars,
                   elm327_initialized, connection_semaphore, polls,
                   send_rejected >>

\* the response wait of send_obd_command_adaptive: data updated, a
\* response flagged, or the 1 s timeout
ObdRespWait ==
   /\ obd_pc = "resp_wait"
   /\ IF ts_advanced
      THEN ObdOutcome(TRUE, Adapt(TRUE, current_delay_ms,
                                  errors_at_max_delay))
      ELSE IF response_received_flag
      THEN /\ obd_pc' = "settle"
           /\ UNCHANGED << taskenv, txvars, rxvars, elm327_initialized,
                           ecu_connected, connection_semaphore, elm_tasks,
                           current_delay_ms, errors_at_max_delay,
                           pollobsvars, polls >>
      ELSE ObdOutcome(FALSE, Adapt(FALSE, current_delay_ms,
                                   errors_at_max_delay))

\* after the 20 ms given to the parser
ObdSettle ==
   /\ obd_pc = "settle"
   /\ ObdOutcome(ts_advanced, Adapt(ts_advanced, current_delay_ms,
                                    errors_at_max_delay))

\* vTaskDelay(current_delay_ms) and check_and_reset_stale_data
ObdDelay ==
   /\ obd_pc = "delay"
   /\ vehicle_data' \in StaleOutcomes(vehicle_data)
   /\ obd_pc' = "top"
   /\ UNCHANGED << taskenv, txvars, rx_buffer, rx_buffer_len, elm_ready,
                   response_received_flag, consecutive_fail,
                   search_retry_count, ecu_test_response_received,
                   ts_advanced, elm327_initialized, ecu_connected,
                   connection_semaphore, elm_tasks, current_delay_ms,
                   errors_at_max_delay, pollobsvars, polls >>

(***************************************************************************)
(* initialize_elm327_task, ecu_reconnection_task, verify_ecu_connection    *)
(* and test_ecu_connectivity                                               *)
(***************************************************************************)
\* what the steps of these tasks leave alone besides what they name
sesstaskenv == << obsvars, testvars, blevars, gattvars, scanvars, disc,
                  links, obdvars, polls, consecutive_fail, search_retry_count, vehicle_data,
                  ts_advanced >>

AtTask(i, kind, pc) ==
   /\ elm_tasks[i].kind = kind
   /\ elm_tasks[i].pc = pc

AtVerify(i, pc) == elm_tasks[i].pc = pc

MoveTask(i, pc, n) ==
   elm_tasks' = [elm_tasks EXCEPT ![i] = [kind |-> @.kind, pc |-> pc,
                                          n |-> n]]

EndTask(i) == elm_tasks' = RemoveAt(elm_tasks, i)

\* the 5 s stabilisation delay
InitTaskDelay ==
   \E i \in 1..Len(elm_tasks) :
      /\ AtTask(i, "init", "delay")
      /\ MoveTask(i, "atz", 0)
      /\ UNCHANGED << sesstaskenv, txvars, rx_buffer, rx_buffer_len,
                      elm_ready, response_received_flag,
                      ecu_test_response_received, elm327_initialized,
                      ecu_connected, connection_semaphore,
                      gpio_ecu_connected, pollobsvars >>

\* after attempt n of the reset command failed or timed out
AfterAtz(i) ==
   IF elm_tasks[i].n + 1 < ATZ_ATTEMPTS
   THEN MoveTask(i, "atz", elm_tasks[i].n + 1)
   ELSE MoveTask(i, "alt", 0)

\* one attempt of the cmd_formats loops: flags cleared, ATZ written
InitAtzSend ==
   \E i \in 1..Len(elm_tasks) :
      /\ AtTask(i, "init", "atz")
      /\ response_received_flag' = FALSE
      /\ elm_ready' = FALSE
      /\ IF ble_uart_write
         THEN /\ WriteChar("at")
              /\ MoveTask(i, "atz_wait", elm_tasks[i].n)
         ELSE /\ AfterAtz(i)
              /\ UNCHANGED txvars
      /\ UNCHANGED << sesstaskenv, rx_buffer, rx_buffer_len,
                      ecu_test_response_received, elm327_initialized,
                      ecu_connected, connection_semaphore,
                      gpio_ecu_connected, pollobsvars >>

\* the 30 s wait for response_received_flag after ATZ
InitAtzWait ==
   \E i \in 1..Len(elm_tasks) :
      /\ AtTask(i, "init", "atz_wait")
      /\ IF response_received_flag
         THEN MoveTask(i, "cmd", 0)
         ELSE AfterAtz(i)
      /\ UNCHANGED << sesstaskenv, txvars, rx_buffer, rx_buffer_len,
                      elm_ready, response_received_flag,
                      ecu_test_response_received, elm327_initialized,
                      ecu_connected, connection_semaphore,
                      gpio_ecu_connected, pollobsvars >>

\* after alt_cmds[n] failed or timed out; past the last one
\* initialization_failed is reached
AfterAlt(i) ==
   IF elm_tasks[i].n + 1 < ALT_CMDS
   THEN /\ MoveTask(i, "alt", elm_tasks[i].n + 1)
        /\ UNCHANGED elm327_initialized
   ELSE /\ elm327_initialized' = FALSE
        /\ EndTask(i)

InitAltSend ==
   \E i \in 1..Len(elm_tasks) :
      /\ AtTask(i, "init", "alt")
      /\ response_received_flag' = FALSE
      /\ IF ble_uart_write
         THEN /\ WriteChar("at")
              /\ MoveTask(i, "alt_wait", elm_tasks[i].n)
              /\ UNCHANGED elm327_initialized
         ELSE /\ AfterAlt(i)
              /\ UNCHANGED txvars
      /\ UNCHANGED << sesstaskenv, rx_buffer, rx_buffer_len, elm_ready,
                      ecu_test_response_received, ecu_connected,
                      connection_semaphore, gpio_ecu_connected,
                      pollobsvars >>

InitAltWait ==
   \E i \in 1..Len(elm_tasks) :
      /\ AtTask(i, "init", "alt_wait")
      /\ IF response_received_flag
         THEN MoveTask(i, "cmd", 0) /\ UNCHANGED elm327_initialized
         ELSE AfterAlt(i)
      /\ UNCHANGED << sesstaskenv, txvars, rx_buffer, rx_buffer_len,
                      elm_ready, response_received_flag,
                      ecu_test_response_received, ecu_connected,
                      connection_semaphore, gpio_ecu_connected,
                      pollobsvars >>

\* init_cmds[n] written; a failed write goes on to the next command after
\* the 200 ms delay
InitCmdSend ==
   \E i \in 1..Len(elm_tasks) :
      /\ AtTask(i, "init", "cmd")
      /\ elm_tasks[i].n < INIT_CMDS
      /\ response_received_flag' = FALSE
      /\ IF ble_uart_write
         THEN /\ WriteChar(IF elm_tasks[i].n = INIT_CMDS - 1
                           THEN "0100" ELSE "at")
              /\ MoveTask(i, "cmd_wait", elm_tasks[i].n)
         ELSE /\ MoveTask(i, "cmd", elm_tasks[i].n + 1)
              /\ UNCHANGED txvars
      /\ UNCHANGED << sesstaskenv, rx_buffer, rx_buffer_len, elm_ready,
                      ecu_test_response_received, elm327_initialized,
                      ecu_connected, connection_semaphore,
                      gpio_ecu_connected, pollobsvars >>

\* the wait for response_received_flag or 30 s, then the 200 ms delay
InitCmdWait ==
   \E i \in 1..Len(elm_tasks) :
      /\ AtTask(i, "init", "cmd_wait")
      /\ MoveTask(i, "cmd", elm_tasks[i].n + 1)
      /\ UNCHANGED << sesstaskenv, txvars, rx_buffer, rx_buffer_len,
                      elm_ready, response_received_flag,
                      ecu_test_response_received, elm327_initialized,
                      ecu_connected, connection_semaphore,
                      gpio_ecu_connected, pollobsvars >>

\* after the last command: initialised, semaphore given,
\* verify_ecu_connection entered
InitFinish ==
   \E i \in 1..Len(elm_tasks) :
      /\ AtTask(i, "init", "cmd")
      /\ elm_tasks[i].n = INIT_CMDS
      /\ elm327_initialized' = TRUE
      /\ elm_ready' = TRUE
      /\ gpio_ecu_connected' = TRUE
      /\ connection_semaphore' = 1
      /\ ecu_connected' = FALSE
      /\ MoveTask(i, "verify", 0)
      /\ UNCHANGED << sesstaskenv, txvars, rx_buffer, rx_buffer_len,
                      response_received_flag, ecu_test_response_received,
                      pollobsvars >>

\* ecu_reconnection_task up to the loop of verify_ecu_connection
EcuReconnectionTask ==
   \E i \in 1..Len(elm_tasks) :
      /\ AtTask(i, "reconnect", "start")
      /\ IF ~is_connected
         THEN EndTask(i) /\ UNCHANGED ecu_connected
         ELSE ecu_connected' = FALSE /\ MoveTask(i, "verify", 0)
      /\ UNCHANGED << sesstaskenv, txvars, rx_buffer, rx_buffer_len,
                      elm_ready, response_received_flag,
                      ecu_test_response_received, elm327_initialized,
                      connection_semaphore, gpio_ecu_connected,
                      pollobsvars >>

\* one pass of the loop of verify_ecu_connection up to the clear in
\* test_ecu_connectivity
VerifyEcu ==
   \E i \in 1..Len(elm_tasks) :
      /\ AtVerify(i, "verify")
      /\ IF ecu_connected
         THEN /\ EndTask(i)
              /\ UNCHANGED << ecu_connected, elm_ready,
                              ecu_test_response_received, rx_buffer,
                              rx_buffer_len >>
         ELSE IF ~is_connected \/ ~elm327_initialized
         THEN /\ ecu_connected' = FALSE
              /\ EndTask(i)
              /\ UNCHANGED << elm_ready, ecu_test_response_received,
                              rx_buffer, rx_buffer_len >>
         ELSE /\ elm_ready' = FALSE
              /\ ecu_test_response_received' = FALSE
              /\ rx_buffer' = << >>
              /\ rx_buffer_len' = 0
              /\ MoveTask(i, "test_send", 0)
              /\ UNCHANGED ecu_connected
      /\ UNCHANGED << sesstaskenv, txvars, response_received_flag,
                      elm327_initialized, connection_semaphore,
                      gpio_ecu_connected, pollobsvars >>

\* the same pass when the callback task is storing byte c at
\* rx_buffer[rx_buffer_len++] while the buffer is cleared: the callback's
\* write of the length lands last, on a zeroed buffer
VerifyEcuRacingStore ==
   \E i \in 1..Len(elm_tasks) : \E c \in {Ord("A")} :
      /\ AtVerify(i, "verify")
      /\ ~ecu_connected /\ is_connected /\ elm327_initialized
      /\ link = "open" /\ disc = "acked"
      /\ 0 < rx_buffer_len /\ rx_buffer_len < MaxRaceLen
      /\ RxLoopGuard(rx_buffer_len)
      /\ elm_ready' = FALSE
      /\ ecu_test_response_received' = FALSE
      /\ rx_buffer' = [k \in 1..rx_buffer_len |-> NUL] \o << c >>
      /\ rx_buffer_len' = rx_buffer_len + 1
      /\ response_received_flag' = TRUE
      /\ MoveTask(i, "test_send", 0)
      /\ UNCHANGED << sesstaskenv, txvars, ecu_connected,
                      elm327_initialized, connection_semaphore,
                      gpio_ecu_connected, pollobsvars >>

\* elm327_send_command_with_options("0100", false) in
\* test_ecu_connectivity
TestSend ==
   \E i \in 1..Len(elm_tasks) :
      /\ AtVerify(i, "test_send")
      /\ send_rejected' = ~SendGuard(is_connected, tx_char_handle)
      /\ IF SendGuard(is_connected, tx_char_handle) /\ ble_uart_write
         THEN /\ WriteChar("0100")
              /\ MoveTask(i, "test_wait", 0)
         ELSE /\ MoveTask(i, "verify_delay", 0)
              /\ UNCHANGED txvars
      /\ UNCHANGED << sesstaskenv, rx_buffer, rx_buffer_len, elm_ready,
                      response_received_flag, ecu_test_response_received,
                      elm327_initialized, ecu_connected,
                      connection_semaphore, gpio_ecu_connected,
                      ceiling_fails >>

\* strstr(rx_buffer, lit) once rx_buffer_len > 5 (of the bytes the framer
\* holds)
TestSees(lit) ==
   /\ rx_buffer_len > TEST_MIN_LEN
   /\ StrStr(CStr(rx_buffer), lit) # 0

\* the 4 s poll of test_ecu_connectivity and the return into
\* verify_ecu_connection
TestWait ==
   \E i \in 1..Len(elm_tasks) :
      /\ AtVerify(i, "test_wait")
      /\ IF ecu_test_response_received
         THEN /\ ecu_connected' = TRUE
              /\ ceiling_fails' = 0
              /\ EndTask(i)
              /\ UNCHANGED << rx_buffer, rx_buffer_len >>
         ELSE IF TestSees(L_UNABLE) \/ TestSees(L_CAN_ERROR)
                 \/ TestSees(L_NO_DATA)
         THEN /\ MoveTask(i, "verify_delay", 0)
              /\ UNCHANGED << ecu_connected, ceiling_fails, rx_buffer,
                              rx_buffer_len >>
         ELSE IF TestSees(L_SEARCHING)
         THEN /\ rx_buffer' = << >>
              /\ rx_buffer_len' = 0
              /\ UNCHANGED << ecu_connected, ceiling_fails, elm_tasks >>
         ELSE /\ MoveTask(i, "verify_delay", 0)
              /\ UNCHANGED << ecu_connected, ceiling_fails, rx_buffer,
                              rx_buffer_len >>
      /\ UNCHANGED << sesstaskenv, txvars, elm_ready,
                      response_received_flag, ecu_test_response_received,
                      elm327_initialized, connection_semaphore,
                      gpio_ecu_connected, send_rejected >>

\* the loop giving up after a failed attempt
VerifyDelay_giveup ==
   \E i \in 1..Len(elm_tasks) :
      /\ AtVerify(i, "verify_delay")
      /\ EndTask(i)
      /\ UNCHANGED << sesstaskenv, txvars, rx_buffer, rx_buffer_len,
                      elm_ready, response_received_flag,
                      ecu_test_response_received, elm327_initialized,
                      ecu_connected, connection_semaphore,
                      gpio_ecu_connected, pollobsvars >>

\* the 2 s delay of verify_ecu_connection between attempts
VerifyDelay ==
   \E i \in 1..Len(elm_tasks) :
      /\ AtVerify(i, "verify_delay")
      /\ MoveTask(i, "verify", 0)
      /\ UNCHANGED << sesstaskenv, txvars, rx_buffer, rx_buffer_len,
                      elm_ready, response_received_flag,
                      ecu_test_response_received, elm327_initialized,
                      ecu_connected, connection_semaphore,
                      gpio_ecu_connected, pollobsvars >>

(***************************************************************************)
(* GATT client events of a link (bluetooth.c, gattc_callback); the scan    *)
(* and the open request that precede a link are in SpecScan                *)
(***************************************************************************)
\* what these events leave alone besides what they name
sessevtenv == << txvars, rxvars, obsvars, testvars, elm327_initialized,
                 ecu_connected, connection_semaphore, obdvars, pollobsvars,
                 polls, gattc_if, is_scanning, connect_pending, start_calls,
                 scan_timeout_tasks, restart_scan_tasks, rec_pc,
                 stuck_detection_count, scan_on, evq, opens >>

\* ESP_GATTC_CONNECT_EVT; service discovery is requested
SessConnectEvt ==
   /\ link # "open"
   /\ links < MaxLinks
   /\ GattcConnectEvt
   /\ link' = "open"
   /\ disc' = "searching"
   /\ links' = links + 1
   /\ UNCHANGED << sessevtenv, tx_char_handle, handlevars, elm_tasks,
                   watchdog_tasks, gpio_ecu_connected >>

\* ESP_GATTC_SEARCH_RES_EVT for the UART service
SessSearchResEvt ==
   /\ link = "open"
   /\ disc = "searching"
   /\ svc_start' = SVC_START
   /\ svc_end' = SVC_END
   /\ disc' = "found"
   /\ UNCHANGED << sessevtenv, blevars, is_connecting, conn_id,
                   uart_service_handle, rx_char_handle,
                   rx_char_cccd_handle, elm_tasks,
                   watchdog_tasks, gpio_ecu_connected, link, links >>

\* ESP_GATTC_SEARCH_CMPL_EVT; c: what the loop over uart_char_uuids found
\* (rx_found, tx_found and the two handles)
GattcSearchCmplEvt(c) ==
   IF svc_start = 0
   THEN /\ disc' = "stalled"
        /\ UNCHANGED << tx_char_handle, rx_char_handle,
                        rx_char_cccd_handle >>
   ELSE /\ rx_char_handle' = IF c.rx_found THEN c.rx ELSE rx_char_handle
        /\ tx_char_handle' = IF c.tx_found THEN c.tx ELSE tx_char_handle
        /\ IF c.rx_found
           THEN /\ rx_char_cccd_handle' = c.rx + 1
                /\ disc' = "cccd"
           ELSE /\ disc' = "stalled"
                /\ UNCHANGED rx_char_cccd_handle

SessSearchCmplEvt ==
   /\ link = "open"
   /\ disc \in {"searching", "found"}
   /\ \E rx_found \in BOOLEAN : \E tx_found \in BOOLEAN :
         GattcSearchCmplEvt([rx_found |-> rx_found, tx_found |-> tx_found,
                             rx |-> RX_HANDLE, tx |-> TX_HANDLE])
   /\ UNCHANGED << sessevtenv, is_connected, is_connecting, conn_id,
                   gattc_if, uart_service_handle, svc_start, svc_end,
                   elm_tasks, watchdog_tasks, gpio_ecu_connected, link,
                   links >>

\* ESP_GATTC_WRITE_DESCR_EVT: on success initialize_elm327_task is created
SessWriteDescrEvt ==
   /\ link = "open"
   /\ disc = "cccd"
   /\ \E ok \in BOOLEAN :
         IF ok
         THEN /\ NumTasks("init") < MaxInitTasks
              /\ elm_tasks' = Append(elm_tasks,
                                 [kind |-> "init", pc |-> "delay", n |-> 0])
              /\ disc' = "acked"
         ELSE /\ disc' = "refused"
              /\ UNCHANGED elm_tasks
   /\ UNCHANGED << sessevtenv, blevars, gattvars, watchdog_tasks,
                   gpio_ecu_connected, link, links >>

\* ESP_GATTC_DISCONNECT_EVT
SessDisconnectEvt ==
   /\ link = "open"
   /\ GattcDisconnectEvt
   /\ link' = "closed"
   /\ disc' = "none"
   /\ UNCHANGED << sessevtenv, elm_tasks, links >>

\* ESP_GATTC_NOTIFY_EVT with a reply of the adapter
SessNotify ==
   /\ link = "open"
   /\ disc = "acked"
   /\ \E p \in Replies(awaiting.cmd) : \E overread \in Overreads(p) :
         \E e \in { process_received_data(RxRec, p, overread,
                                          is_connected, tx_char_handle) } :
            NotifyEffect(e)
   /\ UNCHANGED << obsvars, blevars, testvars, gattvars, scanvars,
                   sessvars, gpio_ecu_connected >>

(***************************************************************************)
(* SpecLink: links coming up and going down under the initialisation and   *)
(* verification tasks and a bounded number of polls                        *)
(***************************************************************************)
\* the open request made, its connect event not yet delivered
InitOpening ==
   /\ is_connected = FALSE
   /\ tx_char_handle = 0
   /\ is_connecting = TRUE
   /\ is_scanning = FALSE
   /\ connect_pending = FALSE
   /\ gattc_if = APP_GATT_IF
   /\ conn_id = NO_CONN
   /\ rx_char_handle = 0
   /\ rx_char_cccd_handle = 0
   /\ uart_service_handle = 0
   /\ svc_start = 0
   /\ svc_end = 0
   /\ start_calls = [c \in Callers |-> 0]
   /\ scan_timeout_tasks = [wait18 |-> 0, wait5 |-> 0]
   /\ restart_scan_tasks = 0
   /\ watchdog_tasks = 0
   /\ rec_pc = "sleep"
   /\ stuck_detection_count = 0
   /\ scan_on = FALSE
   /\ evq = << >>
   /\ link = "opening"
   /\ opens = 1

InitLink == InitRx /\ InitObs /\ InitNoTest /\ InitOpening /\ InitSess

LinkObdSend ==
   /\ polls < MaxPolls
   /\ polls' = polls + 1
   /\ ObdSend

NextLink ==
   \/ SessConnectEvt \/ SessSearchResEvt \/ SessSearchCmplEvt
   \/ SessWriteDescrEvt \/ SessDisconnectEvt \/ SessNotify
   \/ InitTaskDelay \/ InitAtzSend \/ InitAtzWait \/ InitAltSend
   \/ InitAltWait \/ InitCmdSend \/ InitCmdWait \/ InitFinish
   \/ VerifyEcu \/ TestSend \/ TestWait \/ VerifyDelay
   \/ ObdBoot \/ ObdBootTake \/ ObdBootEcu \/ ObdTop \/ ObdWaitBt
   \/ ObdWaitEcu \/ ObdPoll \/ LinkObdSend \/ ObdPromptWait \/ ObdRespWait
   \/ ObdSettle \/ ObdDelay

SpecLink == InitLink /\ [][NextLink]_vars

(***************************************************************************)
(* SpecPoll: the polling loop on an initialised adapter with the ECU       *)
(* verified, under replies, silence, ECU reconnection and links going down *)
(* and coming up                                                           *)
(***************************************************************************)
InitPoll ==
   /\ InitRx /\ InitObs /\ InitNoTest /\ InitLinked /\ InitScanLinked
   /\ InitSessRunning

PollObdSend == ObdSend /\ UNCHANGED polls

NextPoll ==
   \/ SessConnectEvt \/ SessSearchResEvt \/ SessSearchCmplEvt
   \/ SessDisconnectEvt \/ SessNotify
   \/ EcuReconnectionTask \/ VerifyEcu \/ TestSend \/ TestWait
   \/ VerifyDelay
   \/ ObdTop \/ ObdWaitBt \/ ObdWaitEcu \/ ObdPoll \/ PollObdSend
   \/ ObdPromptWait \/ ObdRespWait \/ ObdSettle \/ ObdDelay

SpecPoll == InitPoll /\ [][NextPoll]_vars

(***************************************************************************)
(* SpecDiscover: service and characteristic discovery on a link, over the  *)
(* attribute tables a peer can have (bluetooth.c, ESP_GATTC_SEARCH_RES_EVT *)
(* and ESP_GATTC_SEARCH_CMPL_EVT)                                          *)
(***************************************************************************)
\* the entries of uart_char_uuids
NUM_UUIDS == 5

\* the services a peer reports at most
MaxServices == 2

\* the services matching the UART signatures, with their handle ranges
UartServices ==
   { [uuid |-> "49535343", svc_start |-> SVC_START, svc_end |-> SVC_END],
     [uuid |-> "FFF0", svc_start |-> SVC_START + 10,
      svc_end |-> SVC_END + 10],
     [uuid |-> "FFE0", svc_start |-> SVC_START + 20,
      svc_end |-> SVC_END + 20] }

\* what esp_ble_gattc_get_char_by_uuid answers for one UUID of the list:
\* no characteristic, or one with these property bits
CharOptions ==
   { [present |-> FALSE, props |-> {}] } \cup
   { [present |-> TRUE, props |-> p] :
        p \in { {}, {"notify"}, {"write"}, {"write_nr"},
                {"notify", "write"} } }

CharLists == [1..NUM_UUIDS -> CharOptions]

ServiceLists ==
   { sq \in SeqsUpTo(UartServices, MaxServices) :
        \A i, j \in 1..Len(sq) : i # j => sq[i] # sq[j] }

\* char_result.char_handle of the characteristic with the i-th UUID
CharHandle(i) == svc_start + 1 + i

\* the loop over uart_char_uuids from index i on, c what was found so far
RECURSIVE CharLoop(_, _, _)
CharLoop(chars, i, c) ==
   IF i > NUM_UUIDS \/ (c.rx_found /\ c.tx_found)
   THEN c
   ELSE IF ~chars[i].present
        THEN CharLoop(chars, i + 1, c)
        ELSE IF "notify" \in chars[i].props /\ ~c.rx_found
             THEN CharLoop(chars, i + 1,
                     [c EXCEPT !.rx_found = TRUE, !.rx = CharHandle(i)])
             ELSE IF chars[i].props \cap {"write", "write_nr"} # {}
                     /\ ~c.tx_found
                  THEN CharLoop(chars, i + 1,
                          [c EXCEPT !.tx_found = TRUE,
                                    !.tx = CharHandle(i)])
                  ELSE CharLoop(chars, i + 1, c)

\* what the discovery events leave alone besides what they name
discevtenv == << txvars, rxvars, obsvars, dec_pc, dec_a, dec_b,
                 elm327_initialized, ecu_connected, connection_semaphore,
                 obdvars, pollobsvars, polls, gattc_if, is_scanning,
                 connect_pending, start_calls, scan_timeout_tasks,
                 restart_scan_tasks, rec_pc, stuck_detection_count,
                 scan_on, evq, opens >>

\* ESP_GATTC_SEARCH_RES_EVT for the next matching service of the peer
DiscSearchResEvt ==
   /\ link = "open"
   /\ disc \in {"searching", "found"}
   /\ stream.services # << >>
   /\ svc_start' = Head(stream.services).svc_start
   /\ svc_end' = Head(stream.services).svc_end
   /\ disc' = "found"
   /\ stream' = [stream EXCEPT !.services = Tail(@)]
   /\ UNCHANGED << discevtenv, blevars, is_connecting, conn_id,
                   uart_service_handle, rx_char_handle,
                   rx_char_cccd_handle, elm_tasks,
                   watchdog_tasks, gpio_ecu_connected, link, links >>

\* ESP_GATTC_SEARCH_CMPL_EVT after the last service of the peer
DiscSearchCmplEvt ==
   /\ link = "open"
   /\ disc \in {"searching", "found"}
   /\ stream.services = << >>
   /\ GattcSearchCmplEvt(CharLoop(stream.rest, 1,
                            [rx_found |-> FALSE, tx_found |-> FALSE,
                             rx |-> 0, tx |-> 0]))
   /\ UNCHANGED << discevtenv, stream, is_connected, is_connecting,
                   conn_id, gattc_if, uart_service_handle, svc_start,
                   svc_end, elm_tasks, watchdog_tasks, gpio_ecu_connected,
                   link, links >>

\* ESP_GATTC_CONNECT_EVT of a link to a peer
DiscConnectEvt ==
   /\ stream.id = "gatt"
   /\ SessConnectEvt

\* ESP_GATTC_DISCONNECT_EVT; the peer is the same at the next link
DiscDisconnectEvt ==
   /\ link = "open"
   /\ GattcDisconnectEvt
   /\ link' = "closed"
   /\ disc' = "none"
   /\ \E sv \in ServiceLists : stream' = [stream EXCEPT !.services = sv]
   /\ UNCHANGED << discevtenv, elm_tasks, links >>

InitDiscover ==
   /\ InitRx /\ InitObs /\ InitOpening /\ InitSess
   /\ dec_pc = "idle"
   /\ dec_a = 0
   /\ dec_b = 0
   /\ \E chars \in CharLists : \E sv \in ServiceLists :
         stream = [id |-> "gatt", rest |-> chars, services |-> sv]

NextDiscover ==
   \/ DiscConnectEvt
   \/ DiscSearchResEvt
   \/ DiscSearchCmplEvt
   \/ SessWriteDescrEvt
   \/ DiscDisconnectEvt

SpecDiscover == InitDiscover /\ [][NextDiscover]_vars

\* the first UUID of the list whose characteristic has one of the
\* property bits P, 0 when there is none
FirstWith(chars, P) ==
   IF \E i \in 1..NUM_UUIDS : chars[i].present /\ chars[i].props \cap P # {}
   THEN CHOOSE i \in 1..NUM_UUIDS :
           /\ chars[i].present /\ chars[i].props \cap P # {}
           /\ \A j \in 1..(i - 1) :
                 ~(chars[j].present /\ chars[j].props \cap P # {})
   ELSE 0

\* characteristic discovery has run over the range of a service
Classified ==
   /\ stream.id = "gatt"
   /\ link = "open"
   /\ svc_start # 0
   /\ disc \in {"cccd", "acked", "refused", "stalled"}

\* C27: once characteristic discovery has run, rx_char_handle is the
\* handle of the first characteristic of the list that advertises notify
\* and tx_char_handle that of the first one that advertises write or
\* write-without-response, whatever the order and the property bits, a
\* characteristic with both notify and write included
C27_ClassifiedByCapability ==
   Classified =>
      /\ FirstWith(stream.rest, {"notify"}) # 0 =>
            rx_char_handle = CharHandle(FirstWith(stream.rest, {"notify"}))
      /\ FirstWith(stream.rest, {"write", "write_nr"}) # 0 =>
            tx_char_handle =
               CharHandle(FirstWith(stream.rest, {"write", "write_nr"}))

\* the step of ESP_GATTC_SEARCH_CMPL_EVT
DiscoveryEnds ==
   /\ stream.id = "gatt"
   /\ disc \in {"searching", "found"}
   /\ disc' \in {"cccd", "stalled"}

\* C28: when discovery ends without a matching service or without a
\* characteristic that notifies, the link is torn down (is_connected
\* false); when only a characteristic to write to is missing, the handler
\* goes on to enable notifications
C28_FailedDiscoveryTearsDown ==
   [][DiscoveryEnds =>
         IF svc_start = 0 \/ FirstWith(stream.rest, {"notify"}) = 0
         THEN ~is_connected'
         ELSE disc' = "cccd"]_vars

\* C29: a matching service reported after another one leaves svc_start
\* and svc_end as the first one set them
C29_FirstServiceKept ==
   [][stream.id = "gatt" /\ disc = "found" /\ disc' = "found" =>
         svc_start' = svc_start /\ svc_end' = svc_end]_vars

(***************************************************************************)
(* SpecLost: the polling loop at the delay ceiling with the error counters *)
(* of elm327_handle_response counted, up to the loss of the ECU and the    *)
(* reconnection probe                                                      *)
(***************************************************************************)
MaxHealth == 2

\* ESP_GATTC_NOTIFY_EVT with a reply of the adapter, the error counters
\* included
LostNotify ==
   /\ link = "open"
   /\ disc = "acked"
   /\ consecutive_ecu_failures < MaxHealth
   /\ \E p \in Replies(awaiting.cmd) : \E overread \in Overreads(p) :
         \E e \in { process_received_data(RxRec, p, overread,
                                          is_connected, tx_char_handle) } :
            NotifyEffect(e) /\ NotifyHealth(e)
   /\ UNCHANGED << framervars, modevars, candvars, nosvars, blevars,
                   testvars,
                   gattvars, scanvars,
                   sessvars, gpio_ecu_connected >>

NextLost ==
   \/ SessConnectEvt \/ SessSearchResEvt \/ SessSearchCmplEvt
   \/ SessDisconnectEvt \/ LostNotify
   \/ EcuReconnectionTask \/ VerifyEcu \/ TestSend \/ TestWait
   \/ VerifyDelay
   \/ ObdTop \/ ObdWaitBt \/ ObdWaitEcu \/ ObdPoll \/ PollObdSend
   \/ ObdPromptWait \/ ObdRespWait \/ ObdSettle \/ ObdDelay

InitLost ==
   /\ InitRx /\ InitObs /\ InitNoTest /\ InitLinked /\ InitScanLinked
   /\ InitSessCeiling

SpecLost == InitLost /\ [][NextLost]_vars

(***************************************************************************)
(* SpecMode: the polling strategy of obd_task (combined or individual      *)
(* PIDs) over rounds that return data or not, link and ECU resets and the  *)
(* not-initialised branch, with the tick count in seconds                  *)
(***************************************************************************)
MaxTime == 16
MaxStep == 3

\* switch (phase % 3) of the individual-PID branch with 0111 and 010D
\* exchanged
PerPidCmd_swapped(ph) ==
   IF ph % 3 = 0 THEN "010C" ELSE IF ph % 3 = 1 THEN "010D" ELSE "0111"

\* switch (phase % 3) of the individual-PID branch
PerPidCmd(ph) ==
   IF ph % 3 = 0 THEN "010C" ELSE IF ph % 3 = 1 THEN "0111" ELSE "010D"

\* switch (phase) of the multi-PID branch; no case for a phase of 2
CombinedCmd(ph) ==
   IF ph = 0 THEN "010C11" ELSE IF ph = 1 THEN "010D" ELSE "none"

\* what the polling loop leaves alone
modeenv == << blevars, txvars, rxvars, framervars, healthvars, candvars,
             nosvars,
             testvars,
              gattvars, scanvars, sessvars, gpio_ecu_connected >>

\* one round of if (is_connected && elm327_initialized): success is what
\* send_obd_command_adaptive returns, d1 the seconds it takes, d2 those of
\* vTaskDelay(current_delay_ms), nonzero whether a field is non-zero after
\* check_and_reset_stale_data
ModePoll(success, d1, d2, nonzero) ==
   LET current_time == now
       switch == current_time - last_success_time > SWITCH_S
                    /\ ~use_individual_pids
       uip1 == use_individual_pids \/ switch
       cyc1 == IF switch THEN 0 ELSE individual_pid_cycles
       cmd == IF uip1 THEN PerPidCmd(phase) ELSE CombinedCmd(phase)
       ok == cmd # "none" /\ success
       lst1 == IF ok THEN now + d1 ELSE last_success_time
       ph1 == IF uip1 THEN (phase + 1) % 3 ELSE (phase + 1) % 2
       cyc2 == IF uip1 /\ ph1 = 0 THEN (cyc1 + 1) % UINT8_MOD ELSE cyc1
       back == uip1 /\ ph1 = 0 /\ cyc2 >= CYCLES_BACK
       lst2 == IF back THEN now + d1 ELSE lst1
   IN  /\ now + d1 + d2 <= MaxTime
       /\ use_individual_pids' = (uip1 /\ ~back)
       /\ individual_pid_cycles' = IF back THEN 0 ELSE cyc2
       /\ phase' = IF back THEN 0 ELSE ph1
       /\ last_success_time' = IF nonzero THEN current_time ELSE lst2
       /\ now' = now + d1 + d2
       /\ last_decode' = IF ok THEN now + d1 ELSE last_decode
       /\ last_round' = [cmd |-> cmd, individual |-> uip1,
                         recovered |-> IF switch THEN ok
                                       ELSE last_round.recovered \/ ok,
                         alt |-> 1 - last_round.alt]
       /\ UNCHANGED modeenv

ModeRound ==
   \E success \in BOOLEAN, d1 \in 0..1, d2 \in 0..1, nonzero \in BOOLEAN :
      ModePoll(success, d1, d2, nonzero)

\* if (!is_connected) at the top of the loop: the statics are reset, then
\* while (!is_connected) in steps of 3 s
ModeBtReset ==
   \E d \in {0, MaxStep} :
      /\ now + d <= MaxTime
      /\ phase' = 0
      /\ use_individual_pids' = FALSE
      /\ individual_pid_cycles' = 0
      /\ last_success_time' = 0
      /\ now' = now + d
      /\ UNCHANGED << last_decode, last_round, modeenv >>

\* if (!ecu_connected): the wait in steps of 3 s, then the statics are
\* reset with last_success_time = xTaskGetTickCount()
ModeEcuReset ==
   \E d \in {0, MaxStep} :
      /\ now + d <= MaxTime
      /\ phase' = 0
      /\ use_individual_pids' = FALSE
      /\ individual_pid_cycles' = 0
      /\ last_success_time' = now + d
      /\ now' = now + d
      /\ UNCHANGED << last_decode, last_round, modeenv >>

\* the else branch of if (is_connected && elm327_initialized) and its 1 s
\* delay; phase is left as it is
ModeIdle ==
   /\ now + 1 <= MaxTime
   /\ use_individual_pids' = FALSE
   /\ individual_pid_cycles' = 0
   /\ last_success_time' = 0
   /\ now' = now + 1
   /\ UNCHANGED << phase, last_decode, last_round, modeenv >>

NextMode == ModeRound \/ ModeBtReset \/ ModeEcuReset \/ ModeIdle

SpecMode == InitPoll /\ [][NextMode]_vars

\* SpecPoll with every task scheduled again and again (FreeRTOS runs each
\* task once its delay is over); the peer and the adapter owe nothing
SpecPollFair ==
   /\ SpecPoll
   /\ WF_vars(EcuReconnectionTask) /\ WF_vars(VerifyEcu)
   /\ WF_vars(TestSend) /\ WF_vars(TestWait) /\ WF_vars(VerifyDelay)
   /\ WF_vars(ObdTop) /\ WF_vars(ObdWaitBt) /\ WF_vars(ObdWaitEcu)
   /\ WF_vars(ObdPoll) /\ WF_vars(PollObdSend) /\ WF_vars(ObdPromptWait)
   /\ WF_vars(ObdRespWait) /\ WF_vars(ObdSettle) /\ WF_vars(ObdDelay)

(***************************************************************************)
(* SpecNos: update_nos_system and toggle_auto_injection_mode                *)
(* (gpio_control.c) called from two tasks, statement by statement, while   *)
(* the connection flags change                                             *)
(***************************************************************************)
\* the values around the thresholds of update_nos_system
NosRpms == {3000, 3001}
NosThrottles == {40, 41}
NosSpeeds == {20, 21}

nosenv == << tx_char_handle, txvars, rxvars, framervars, healthvars,
            modevars, candvars, testvars, gattvars, scanvars, sessvars >>

\* update_nos_system up to set_nos_ready: the connection test and the
\* conditions
NosUpdateEnter(rpm, throttle, speed) ==
   /\ nos_pc.pc = "idle"
   /\ IF ~is_connected \/ ~gpio_ecu_connected
      THEN /\ nos_ready_relay' = FALSE
           /\ nos_pc' = [pc |-> "off", conditions_met |-> FALSE,
                         level |-> FALSE]
           /\ last_update' = [connected |-> FALSE, conditions_met |-> FALSE]
      ELSE LET conditions_met == speed > 20 /\ rpm > 3000 /\ throttle > 40
           IN  /\ nos_ready_relay' = conditions_met
               /\ nos_pc' = [pc |-> "mode",
                             conditions_met |-> conditions_met,
                             level |-> FALSE]
               /\ last_update' = [connected |-> TRUE,
                                  conditions_met |-> conditions_met]
   /\ UNCHANGED << auto_injection_mode, nos_auto_inj_relay,
                   nos_conditions_met, toggle_pc, is_connected,
                   gpio_ecu_connected, nosenv >>

\* the branch taken when not connected: the relay is switched off in auto
\* mode, nos_conditions_met is cleared
NosUpdateOff ==
   /\ nos_pc.pc = "off"
   /\ nos_auto_inj_relay' =
         IF auto_injection_mode THEN FALSE ELSE nos_auto_inj_relay
   /\ nos_conditions_met' = FALSE
   /\ nos_pc' = [pc |-> "idle", conditions_met |-> FALSE, level |-> FALSE]
   /\ UNCHANGED << auto_injection_mode, nos_ready_relay, toggle_pc,
                   last_update, is_connected, gpio_ecu_connected, nosenv >>

\* if (auto_injection_mode): the flag is read and the argument of
\* set_nos_auto_injection is fixed
NosUpdateMode ==
   /\ nos_pc.pc = "mode"
   /\ nos_pc' = [nos_pc EXCEPT
                    !.pc = "write",
                    !.level = auto_injection_mode /\ nos_pc.conditions_met]
   /\ UNCHANGED << auto_injection_mode, nos_ready_relay, nos_auto_inj_relay,
                   nos_conditions_met, toggle_pc, last_update, is_connected,
                   gpio_ecu_connected, nosenv >>

\* set_nos_auto_injection and the rest of update_nos_system
NosUpdateWrite ==
   /\ nos_pc.pc = "write"
   /\ nos_auto_inj_relay' = nos_pc.level
   /\ nos_conditions_met' = nos_pc.conditions_met
   /\ nos_pc' = [pc |-> "idle", conditions_met |-> FALSE, level |-> FALSE]
   /\ UNCHANGED << auto_injection_mode, nos_ready_relay, toggle_pc,
                   last_update, is_connected, gpio_ecu_connected, nosenv >>

\* toggle_auto_injection_mode: the flag is inverted and saved
ToggleFlip ==
   /\ toggle_pc = "idle"
   /\ auto_injection_mode' = ~auto_injection_mode
   /\ toggle_pc' = "saved"
   /\ UNCHANGED << nos_ready_relay, nos_auto_inj_relay, nos_conditions_met,
                   nos_pc, last_update, is_connected, gpio_ecu_connected,
                   nosenv >>

\* toggle_auto_injection_mode: if (!auto_injection_mode) the relay is
\* switched off
ToggleOff ==
   /\ toggle_pc = "saved"
   /\ nos_auto_inj_relay' =
         IF ~auto_injection_mode THEN FALSE ELSE nos_auto_inj_relay
   /\ toggle_pc' = "idle"
   /\ UNCHANGED << auto_injection_mode, nos_ready_relay, nos_conditions_met,
                   nos_pc, last_update, is_connected, gpio_ecu_connected,
                   nosenv >>

\* the flags update_nos_system reads, as the connect and disconnect events
\* and set_ecu_status leave them
NosStatus ==
   /\ is_connected' \in BOOLEAN
   /\ gpio_ecu_connected' \in BOOLEAN
   /\ UNCHANGED << nosvars, nosenv >>

NextNos ==
   \/ \E rpm \in NosRpms, throttle \in NosThrottles, speed \in NosSpeeds :
         NosUpdateEnter(rpm, throttle, speed)
   \/ NosUpdateOff
   \/ NosUpdateMode
   \/ NosUpdateWrite
   \/ ToggleFlip
   \/ ToggleOff
   \/ NosStatus

InitNos ==
   /\ InitRx /\ InitObs /\ InitNoTest /\ InitLinked /\ InitScanLinked
   /\ InitSessRunning

SpecNos == InitNos /\ [][NextNos]_vars

\* SpecFramer, its actions being defined by now
NextFramer ==
   \/ FramerNotify \/ VerifyEcu \/ VerifyEcuRacingStore \/ TestSend
   \/ TestWait \/ VerifyDelay

SpecFramer == InitFramer /\ [][NextFramer]_vars

(***************************************************************************)
(* Claims                                                                  *)
(***************************************************************************)
\* C1: a connect request (esp_ble_gattc_open) is issued only in the step
\* that handles a scan-stopped event while a connect is pending from a scan
\* result matching the target, and never while the controller is scanning
C1_ConnectOnlyAfterScanStopped ==
   [][opens' # opens =>
         /\ evq # << >>
         /\ Head(evq) = "scan_stop"
         /\ connect_pending
         /\ ~scan_on]_vars

\* C5: once the stream "41 0C 0B B8 41 0D 3C 41 11 FF" CR has been fed to
\* process_received_data, in any slicing, the snapshot is rpm 3000,
\* vehicle_speed 60, throttle_position 100
C5_ScenarioSnapshot ==
   (stream.id = "scenario" /\ stream.rest = << >>) =>
      vehicle_data = [rpm |-> 3000, throttle_position |-> 100,
                      vehicle_speed |-> 60]

C8_TerminatorFlushesAfterOverflow ==
   rx_buffer_len > 0 =>
      \A t \in {CR, PROMPT} :
         \A e \in { process_received_data(RxRec, << t >>, FALSE,
                                          is_connected, tx_char_handle) } :
            e.len = 0 /\ e.lines = lines_emitted + 1


\* C9: rx_buffer_len never exceeds RX_BUFFER_SIZE - 1, whatever is received
\* and whenever test_ecu_connectivity clears the buffer, and no store into
\* rx_buffer (the terminating NUL included) is at an index of
\* RX_BUFFER_SIZE or more
C9_CursorWithinBuffer ==
   /\ rx_buffer_len <= RX_BUFFER_SIZE - 1
   /\ Len(rx_buffer) = rx_buffer_len
   /\ ~store_oob

C9_Witness ==
   /\ rx_buffer_len = RX_BUFFER_SIZE - 1
   /\ \E i \in 1..Len(elm_tasks) : elm_tasks[i].pc = "test_wait"

\* C2: command bytes are written to the adapter only while the link is
\* Ready: link open, write handle known (non-zero), and the notification
\* enable of this link acknowledged; in particular after a disconnect and a
\* new connect event nothing is written before the new link's enable is
\* acknowledged
C2_WritesOnlyWhenReady ==
   [][(awaiting' # awaiting /\ awaiting'.cmd # "none")
         => (link = "open" /\ is_connected /\ tx_char_handle # 0
             /\ disc = "acked")]_vars

\* C3: the ECU is declared Lost (reset_ecu_connection) exactly by the
\* failure that brings the count of consecutive failures at the 500 ms
\* ceiling to MAX_ERRORS_AT_MAX_DELAY, in every round, also after an earlier
\* Lost/reconnect cycle; a success sets errors_at_max_delay to 0; a failure
\* below the ceiling changes neither the counter nor the ECU state
PollEnds ==
   obd_pc \in {"resp_wait", "settle"} /\ obd_pc' = "delay"

DeclaredLost ==
   Len(elm_tasks') > Len(elm_tasks) /\ ~ecu_connected'

C3_LostExactlyAtTenCeilingFailures ==
   [][/\ DeclaredLost
         => /\ PollEnds /\ ~ts_advanced
            /\ current_delay_ms = MAX_COMMAND_DELAY_MS
            /\ ceiling_fails' = MAX_ERRORS_AT_MAX_DELAY
      /\ (/\ PollEnds /\ ~ts_advanced
          /\ current_delay_ms = MAX_COMMAND_DELAY_MS
          /\ ceiling_fails' = MAX_ERRORS_AT_MAX_DELAY) => DeclaredLost
      /\ (PollEnds /\ ts_advanced) => errors_at_max_delay' = 0
      /\ (/\ PollEnds /\ ~ts_advanced
          /\ current_delay_ms < MAX_COMMAND_DELAY_MS)
         => /\ errors_at_max_delay' = errors_at_max_delay
            /\ ecu_connected' = ecu_connected
            /\ elm_tasks' = elm_tasks]_vars

C10_SendRefusedWhenNotConnected ==
   [][/\ (/\ obd_pc = "send" /\ obd_pc' # "send"
          /\ ~(is_connected /\ tx_char_handle # 0))
         => /\ obd_pc' = "delay"
            /\ awaiting' = awaiting
            /\ elm_ready' = elm_ready
      /\ (obd_pc' = "prompt_wait" /\ obd_pc # "prompt_wait")
         => (obd_pc = "send" /\ is_connected /\ tx_char_handle # 0)
      /\ (obd_pc' = "resp_wait" /\ obd_pc # "resp_wait")
         => (obd_pc = "prompt_wait" /\ awaiting' # awaiting)
      /\ \A i \in 1..Len(elm_tasks) :
            (/\ elm_tasks[i].pc = "test_send"
             /\ Len(elm_tasks') = Len(elm_tasks)
             /\ elm_tasks'[i].pc # "test_send"
             /\ ~(is_connected /\ tx_char_handle # 0))
            => /\ elm_tasks'[i].pc = "verify_delay"
               /\ awaiting' = awaiting
               /\ elm_ready' = elm_ready]_vars

C10_Witness ==
   /\ send_rejected
   /\ obd_pc = "delay"
   /\ awaiting.cmd = "none"

\* C11: once a disconnect event has been handled, whatever the link had
\* reached, uart_service_handle, tx_char_handle, rx_char_handle and
\* rx_char_cccd_handle are 0, conn_id is the 0xFFFF sentinel, is_connected
\* and is_connecting are false; and from there until the service discovery
\* of the next link has completed all four handles stay 0
C11_DisconnectClearsLink ==
   /\ link = "closed"
         => /\ conn_id = NO_CONN
            /\ ~is_connected /\ ~is_connecting
   /\ (link = "closed" \/ disc \in {"none", "searching", "found"})
         => /\ uart_service_handle = 0
            /\ tx_char_handle = 0
            /\ rx_char_handle = 0
            /\ rx_char_cccd_handle = 0

C11_Witness ==
   /\ link = "closed"
   /\ links = 1
   /\ \E i \in 1..Len(elm_tasks) : elm_tasks[i].kind = "init"

\* C12: a disconnect event sets elm327_initialized to false, and
\* elm327_initialized becomes true again only at the end of an
\* initialization sequence on a link whose notification enable was
\* acknowledged
C12_DisconnectResetsSession ==
   [][/\ (link = "open" /\ link' = "closed") => ~elm327_initialized'
      /\ (elm327_initialized' /\ ~elm327_initialized)
         => /\ link = "open" /\ disc = "acked"
            /\ \E i \in 1..Len(elm_tasks) :
                  /\ AtTask(i, "init", "cmd")
                  /\ elm_tasks[i].n = INIT_CMDS]_vars

\* C13: a failed send in initialize_elm327_task, in the reset phase or at
\* any later command, aborts the initialization: the task ends there with
\* elm327_initialized false, without giving the semaphore and without
\* entering verify_ecu_connection (so elm327_initialized is set only after
\* a sequence without a failed send)
C13_SendFailureAbortsInit ==
   [][\A i \in 1..Len(elm_tasks) :
         (/\ elm_tasks[i].kind = "init"
          /\ \/ elm_tasks[i].pc \in {"atz", "alt"}
             \/ elm_tasks[i].pc = "cmd" /\ elm_tasks[i].n < INIT_CMDS
          /\ ~(is_connected /\ tx_char_handle # 0)
          /\ \/ Len(elm_tasks') < Len(elm_tasks)
             \/ elm_tasks'[i] # elm_tasks[i])
         => /\ Len(elm_tasks') < Len(elm_tasks)
            /\ ~elm327_initialized'
            /\ connection_semaphore' = connection_semaphore]_vars

\* C14 as stated: a verification of the ECU always comes to an end, also
\* when the ECU never answers the 0100 probe while the link stays up and the
\* session initialised (it gives up after some number of attempts)
Verifying ==
   \E i \in 1..Len(elm_tasks) :
      elm_tasks[i].pc \in {"verify", "test_send", "test_wait", "verify_delay"}

C15_OneScanOneWatcherOneWatchdog ==
   [][/\ watchdog_tasks' <= 1
      /\ scan_timeout_tasks'.wait18 + scan_timeout_tasks'.wait5 <= 1
      /\ (TotalStartCalls' < TotalStartCalls /\ scan_on' /\ evq' # evq)
         => ~scan_on]_vars

\* C16: a call of start_ble_scan gets past its early returns (and so goes on
\* to request a scan) only in the Idle/Disconnected state: no scan active,
\* no connect pending or in flight, not connected
C16_ScanStartOnlyWhenIdle ==
   [][TotalStartCalls' > TotalStartCalls
         => /\ ~is_scanning
            /\ ~connect_pending /\ ~is_connecting
            /\ ~is_connected]_vars

\* C17: a command wait that is under way when the link goes down (the prompt
\* wait of elm327_send_command_with_options, the response wait of
\* send_obd_command_adaptive) ends early, not by running to its timeout, and
\* the call writes no command afterwards
C17_WaitAbortsOnDisconnect ==
   [][/\ (obd_pc = "prompt_wait" /\ obd_pc' # "prompt_wait"
          /\ ~is_connected)
         => ~PromptWaitTimedOut /\ awaiting' = awaiting
      /\ (obd_pc = "resp_wait" /\ obd_pc' # "resp_wait" /\ ~is_connected)
         => ~RespWaitTimedOut /\ awaiting' = awaiting]_vars

\* C18: no telemetry field leaves its physical range: throttle_position is
\* in 0..100, rpm in 0..16383 and vehicle_speed in 0..255, whatever the
\* tokens of the response line are
C18_FieldsWithinRange ==
   /\ vehicle_data.throttle_position \in 0..100
   /\ vehicle_data.rpm \in 0..16383
   /\ vehicle_data.vehicle_speed \in 0..255

\* a speed token of three hex digits worth more than a byte has been decoded
C18_Witness ==
   /\ dec_pc = "speed"
   /\ Len(dec_a) = MaxTokLen
   /\ StrToL16(dec_a) > UINT8_MOD
   /\ vehicle_data.vehicle_speed = 255

\* C19: decoding is idempotent on values: the same response line decoded a
\* second time leaves rpm, throttle_position and vehicle_speed as the first
\* decode left them (only the timestamps may advance)
C19_DecodeTwiceSameValues ==
   [][dec_pc' = "again" => vehicle_data' = vehicle_data]_vars

\* a line with a non-zero speed has been decoded twice
C19_Witness ==
   /\ dec_pc = "again"
   /\ ts_advanced
   /\ vehicle_data.vehicle_speed = 119

\* C20: the transport event-delivery context never blocks: the callback
\* that handles a notification makes no delay and no wait on the ready flag
C20_CallbackNeverBlocks == ~callback_blocked

\* C21: obd_task writes a PID request only while the notification enable of
\* the current link is acknowledged, no initialize_elm327_task is still in
\* its command sequence and the ECU is verified, so that polling commands
\* never interleave with initialisation commands
C21_PollsOnlyWhenReadyAndVerified ==
   [][(obd_pc = "prompt_wait" /\ obd_pc' = "resp_wait")
         => /\ disc = "acked"
            /\ ecu_connected
            /\ \A i \in 1..Len(elm_tasks) :
                  elm_tasks[i].kind = "init"
                     => elm_tasks[i].pc \in {"verify", "test_send",
                                             "test_wait", "verify_delay"}]_vars

C23_LostClearsBothFlags ==
   [][DeclaredLost => ~ecu_connected' /\ ~gpio_ecu_connected']_vars

\* C24: display freshness is independent of ECU health and of the link: a
\* non-zero rpm does not persist for ever while the transport is
\* disconnected; the staleness sweep sets it to 0
C24_StaleRpmZeroedWhileDisconnected ==
   (vehicle_data.rpm # 0 /\ ~is_connected)
      ~> (vehicle_data.rpm = 0 \/ is_connected)

\* C25: the polling round changes the mode from Combined to PerPid only
\* when no poll has returned data for more than 5000 ms, and from PerPid
\* back to Combined only after 3 full per-PID cycles in which at least one
\* command returned data; cycles that all fail do not switch back
C25_ModeSwitching ==
   [][last_round'.alt # last_round.alt
         => /\ (~use_individual_pids /\ last_round'.individual)
                  => now - last_decode > SWITCH_S
            /\ (last_round'.individual /\ ~use_individual_pids')
                  => last_round'.recovered]_vars

C35_EcuImpliesTransport == ecu_connected => is_connected

\* C36: is_connecting and is_connected are never both true, and is_scanning
\* is never true together with is_connecting
C36_FlagsNeverIllegal ==
   /\ ~(is_connecting /\ is_connected)
   /\ ~(is_scanning /\ is_connecting)

\* C37: at no time are two tasks among initialize_elm327_task and
\* ecu_reconnection_task alive
C37_OneBringUpTask == Len(elm_tasks) <= 1

\* C38: the printable bytes buffered since the last terminator stay in
\* rx_buffer, in their order and at the front, until a step of the framer
\* hands a line to elm327_handle_response: no step of a task takes them away
\* or leaves cleared cells in front of a byte stored later
C38_NoByteLostToReset ==
   [][(rx_buffer_len > 0 /\ lines_emitted' = lines_emitted) =>
         /\ rx_buffer_len' >= rx_buffer_len
         /\ Len(rx_buffer') >= Len(rx_buffer)
         /\ SubSeq(rx_buffer', 1, Len(rx_buffer)) = rx_buffer]_vars

\* C39: gpio_control.c's ECU flag is true only while elm327.c's
\* ecu_connected is true
C39_GpioFlagOnlyWhenVerified == gpio_ecu_connected => ecu_connected

\* C40: when no call of update_nos_system or toggle_auto_injection_mode is
\* under way, the auto-injection relay is on only if auto_injection_mode
\* is true and the last update found the transport and the ECU connected
\* and the conditions met
C40_InjectionOnlyInAutoMode ==
   (nos_pc.pc = "idle" /\ toggle_pc = "idle" /\ nos_auto_inj_relay) =>
      /\ auto_injection_mode
      /\ last_update.connected
      /\ last_update.conditions_met

=============================================================================
